---- MODULE Spec2Model ----
(***************************************************************************)
(* Behavioural model of the Greenbone/OpenVAS MCP integration layer.       *)
(*                                                                         *)
(*   Spec      first-request initialization of the server composition root *)
(*             (src/core/mcp_server.py) together with the settings loader  *)
(*             and the tool exposure decided by the entry point.           *)
(*   SpecCall  the GMP client wrapper's _call / _session discipline and    *)
(*             the rows=-1 pagination injection (src/services/gvm_client). *)
(*   SpecTool  the scan-workflow tool handlers, one invocation at a time   *)
(*             (src/tools/vm_workflow_tools.py, inspection_control_tools). *)
(*   SpecLib   the helper functions applied on their own: result pruning,  *)
(*             report previews, delta counting, credential and logging     *)
(*             setup (src/tools/utils/helpers.py, src/config).             *)
(*   SpecLoop  the request coroutines on the event loop and their sessions *)
(*             on the client's connection.                                 *)
(*                                                                         *)
(* Text is modelled as a sequence of one-character strings, messages as a  *)
(* sequence of words.                                                      *)
(***************************************************************************)
EXTENDS Integers, Sequences, FiniteSets, TLC

VARIABLES
    \* ---- server composition root (GreenboneMCP) ----
    LOW_LEVEL_TOOLS,    \* MCPConfig.LOW_LEVEL_TOOLS read by main()
    gvm_client,         \* self._gvm_client
    gvm_ready,          \* self._gvm_ready
    tools_registered,   \* self._tools_registered
    registry,           \* tool name -> number of times it was registered on the server
    tool_client,        \* tool name -> the client its registered handler calls (0: no handler)
    constructed,        \* number of GvmClient objects constructed so far
    loop,               \* the request whose coroutine holds the event loop (0: none)
    pc,                 \* request -> position inside on_initialize / init
    cause,              \* request -> the exception init raised in this request (or None)
    error,              \* request -> the McpError surfaced to the caller (or None)
    forwarded,          \* request -> number of call_next invocations
    authCalls,          \* number of authenticate() calls made so far
    authOk,             \* request -> authenticate() succeeded in this request's attempt
    registeredBy,       \* request -> tool groups whose registration this request ran
    \* ---- GMP client wrapper (GvmClient._call) ----
    cpc,                \* position inside _call
    call,               \* the call being made: method name and keyword arguments
    openSessions,       \* number of GMP sessions currently open
    sessionsOpened,     \* sessions opened by the current call
    commandsIssued,     \* remote commands issued by the current call
    dispatched,         \* keyword arguments the command was dispatched with (or None)
    callResult,         \* "none", "returned" or "raised"
    raised,             \* the exception raised inside _call (or none)
    callLog,            \* records _call has logged during the current call
    \* ---- tool handlers (one invocation at a time) ----
    tool,               \* the invocation: tool name and arguments
    tpc,                \* position inside the handler
    issued,             \* remote commands issued by the invocation, in order
    failedCommands,     \* how many of them failed
    got,                \* values the handler has read from the responses so far
    result,             \* what the invocation ended with
    \* ---- helper functions applied on their own ----
    fnArgs,             \* the arguments of the function under application
    fnRet,              \* what its successive applications returned
    \* ---- logging ----
    root_logger,        \* logging.getLogger(): its level and its handlers
    written,            \* times the last log record was written to sys.stderr
    \* ---- coroutines on the event loop ----
    co,                 \* coroutine -> its kind, position, calls left, pending failure
    running,            \* the coroutine that holds the event loop (0: none)
    conn,               \* coroutines with a session open on the client's connection
    wire,               \* what was sent over the connection, in order
    ready,              \* the server's ready flag, as the coroutines see it
    hosted              \* names of the tools the server hosts a handler for

serverVars == <<LOW_LEVEL_TOOLS, gvm_client, gvm_ready, tools_registered, registry, tool_client,
                loop, pc, cause, error, forwarded, authCalls, constructed, authOk, registeredBy>>
callVars == <<cpc, call, openSessions, sessionsOpened, commandsIssued, dispatched,
              callResult, raised, callLog>>
toolVars == <<tool, tpc, issued, failedCommands, got, result>>
logVars == <<root_logger, written>>
coVars == <<co, running, conn, wire, ready, hosted>>
libVars == <<fnArgs, fnRet, logVars, coVars>>
vars == <<serverVars, callVars, toolVars, libVars>>

None == "None"

-----------------------------------------------------------------------------
(* Bounds *)

NumRequests == 2        \* intercepted requests that may overlap
MaxPasswordLen == 2     \* length of the password settings tried
MaxTextLen == 2         \* words in a daemon / exception text
MaxAtoms == 4           \* pieces a caller's filter string is built from

Requests == 1..NumRequests

-----------------------------------------------------------------------------
(* Text helpers *)

\* All sequences over S of length at most n.
SeqsUpTo(S, n) == UNION {[1..k -> S] : k \in 0..n}

\* Optional text: a setting that may be unset, a keyword argument that may be None.
NoneValue == [some |-> FALSE, val |-> <<>>]
Str(s) == [some |-> TRUE, val |-> s]

Whitespace == {" "}

\* str.strip(): drop leading and trailing whitespace.
RECURSIVE LStrip(_)
LStrip(s) == IF s # <<>> /\ Head(s) \in Whitespace THEN LStrip(Tail(s)) ELSE s

RECURSIVE RStrip(_)
RStrip(s) ==
    IF s # <<>> /\ s[Len(s)] \in Whitespace THEN RStrip(SubSeq(s, 1, Len(s) - 1)) ELSE s

Strip(s) == RStrip(LStrip(s))

\* Python's `needle in haystack` on sequences.
Contains(haystack, needle) ==
    \E i \in 0..(Len(haystack) - Len(needle)) :
        SubSeq(haystack, i + 1, i + Len(needle)) = needle

-----------------------------------------------------------------------------
(* Settings loader: GvmClientConfig *)

Missing == NoneValue    \* the password variable is set nowhere
PasswordChars == {" ", "x"}
Passwords == {Missing} \cup {Str(p) : p \in SeqsUpTo(PasswordChars, MaxPasswordLen)}

PasswordField == "GMP_PASSWORD"

\* The pydantic errors GvmClientConfig() raises for a password setting
\* (<<>>: the settings object is constructed).
GvmClientConfig(password) ==
    IF ~password.some
    THEN <<[loc |-> <<PasswordField>>, type |-> "missing", msg |-> "Field required"]>>
    ELSE IF Strip(password.val) = <<>>
    THEN <<[loc |-> <<PasswordField>>, type |-> "value_error",
            msg |-> "Value error, GMP_PASSWORD must not be empty"]>>
    ELSE <<>>

\* ".".join(str(x) for x in loc), for the one-element locations pydantic gives here.
JoinLoc(loc) == IF Len(loc) = 1 THEN loc[1] ELSE "<nested>"

ConfigPrefix == "Failed to load GVM configuration:"

_format_gvm_config_error(errors) ==
    LET hits == {i \in 1..Len(errors) : JoinLoc(errors[i].loc) = "PASSWORD"}
    IN  IF hits = {}
        THEN <<ConfigPrefix, "invalid settings.">>
        ELSE LET i == CHOOSE j \in hits : \A k \in hits : j <= k
             IN  IF errors[i].type = "missing"
                 THEN <<ConfigPrefix, "PASSWORD",
                        "is required (set it in .env or environment variables).">>
                 ELSE <<ConfigPrefix, "PASSWORD", errors[i].msg, ".">>

-----------------------------------------------------------------------------
(* Exceptions and protocol errors *)

Words == {"Authentication", "failed"}
Texts == SeqsUpTo(Words, MaxTextLen)    \* str(ex) of a raised exception

NoException == [type |-> "None", text |-> <<>>, errors |-> <<>>]
ValidationError(errs) == [type |-> "ValidationError", text |-> <<>>, errors |-> errs]
GvmResponseError(t) == [type |-> "GvmResponseError", text |-> t, errors |-> <<>>]
OtherException(t) == [type |-> "Exception", text |-> t, errors |-> <<>>]
McpError(msg) == [type |-> "McpError", text |-> msg, errors |-> <<>>]

INTERNAL_ERROR == "INTERNAL_ERROR"
NoError == [code |-> None, message |-> <<>>]
ErrorData(c, msg) == [code |-> c, message |-> msg]

AuthPrefix == "Failed to authenticate with GVM:"
InitPrefix == "Failed to initialize Greenbone backend:"

\* init's handler around authenticate(): the exception that leaves init.
init_except(ex) ==
    IF ex.type = "GvmResponseError"
    THEN IF Contains(ex.text, <<"Authentication", "failed">>)
         THEN McpError(<<AuthPrefix, "wrong credentials.">>)
         ELSE McpError(<<AuthPrefix>> \o ex.text)
    ELSE ex

\* Whether init's handler runs its body (and so discards the client).
init_except_discards_client(ex) == ex.type = "GvmResponseError"

\* Variant: no `except McpError: raise` clause, init's own error is wrapped again.
on_initialize_except_wrapping(ex) ==
    IF ex.type = "ValidationError"
    THEN ErrorData(INTERNAL_ERROR, _format_gvm_config_error(ex.errors))
    ELSE ErrorData(INTERNAL_ERROR, <<InitPrefix>> \o ex.text)

\* on_initialize's handlers: the protocol error raised to the caller for an
\* exception that left init.
on_initialize_except(ex) ==
    IF ex.type = "McpError"
    THEN ErrorData(INTERNAL_ERROR, ex.text)
    ELSE IF ex.type = "ValidationError"
    THEN ErrorData(INTERNAL_ERROR, _format_gvm_config_error(ex.errors))
    ELSE ErrorData(INTERNAL_ERROR, <<InitPrefix>> \o ex.text)

-----------------------------------------------------------------------------
(* Tool groups *)

InspectionTools ==
    {"get_targets", "get_target", "get_tasks", "get_port_lists", "start_task", "stop_task"}
WorkflowTools ==
    {"start_scan", "scan_status", "fetch_latest_report", "restart_scan", "delta_report"}
Tools == InspectionTools \cup WorkflowTools
Groups == {"inspection", "workflow"}
GroupTools(g) == IF g = "inspection" THEN InspectionTools ELSE WorkflowTools

\* tags= of each @mcp.tool registration.
ToolTags(t) ==
    IF t \in {"get_targets", "get_target", "get_tasks", "get_port_lists"}
    THEN {"inspection_control"}
    ELSE {}

\* main(): exclude_tags handed to the server constructor.
exclude_tags == IF ~LOW_LEVEL_TOOLS THEN {"low_level"} ELSE {}

\* A registered tool is listed to the caller unless one of its tags is excluded.
Exposed(t) == registry[t] > 0 /\ ToolTags(t) \cap exclude_tags = {}

\* register_<group>_tools(mcp, gvm_client) ran to completion.
Register(g) == [t \in Tools |-> IF t \in GroupTools(g) THEN registry[t] + 1 ELSE registry[t]]

\* The GvmClient object self._gvm_client refers to, named by its number in the
\* order of construction (0: the reference is None).
held == IF gvm_client = None THEN 0 ELSE constructed

\* Variant: a tool name that already has a handler keeps it.
BindKeepingFirst(g) ==
    [t \in Tools |-> IF t \in GroupTools(g) /\ tool_client[t] = 0
                     THEN held ELSE tool_client[t]]

\* register_<group>_tools(self, self._gvm_client): every `@mcp.tool(name=...)`
\* of the group installs a handler closed over the client passed in; a name
\* registered before gets the new handler.
Bind(g) == [t \in Tools |-> IF t \in GroupTools(g) THEN held ELSE tool_client[t]]

\* The client accessor.
gvm == IF gvm_client = None THEN "RuntimeError" ELSE gvm_client

-----------------------------------------------------------------------------
(* Cooperative scheduling of the request coroutines *)

\* Variant: a coroutine also suspends before it issues the command of a session.
AwaitPointsInSession == {"awaiting", "command"}

\* Positions at which a request's coroutine is suspended at an await
\* (on_initialize awaits only call_next).
AwaitPoints == {"awaiting"}

\* Positions at which a request's coroutine does not hold the event loop.
Parked(p) == p \in AwaitPoints \cup {"pending", "failed", "done"}

\* Request r may take its next step.
Runs(r) == IF loop = 0 THEN Parked(pc[r]) ELSE loop = r

\* The event loop's holder once r has moved to position p.
Hold(r, p) == IF Parked(p) THEN 0 ELSE r

\* Outcomes of reading USERNAME / PASSWORD from the constructed settings object.
ReadCredentialsOutcomes == {"ok", "AttributeError"}

\* Outcomes of GvmClient.authenticate().
AuthenticateOutcomes ==
    {[ok |-> TRUE, ex |-> NoException]}
        \cup {[ok |-> FALSE, ex |-> GvmResponseError(t)] : t \in Texts}
        \cup {[ok |-> FALSE, ex |-> OtherException(t)] : t \in Texts}

\* Outcomes of one register_<group>_tools call.
RegisterOutcomes == {"ok", "raise"}

RegistrationText == <<"failed">>
AttributeText == <<"failed">>

-----------------------------------------------------------------------------
(* Server composition root: on_initialize and init *)

ServerInit ==
    /\ LOW_LEVEL_TOOLS \in BOOLEAN
    /\ gvm_client = None
    /\ gvm_ready = FALSE
    /\ tools_registered = FALSE
    /\ registry = [t \in Tools |-> 0]
    /\ tool_client = [t \in Tools |-> 0]
    /\ constructed = 0
    /\ loop = 0
    /\ pc = [r \in Requests |-> "pending"]
    /\ cause = [r \in Requests |-> NoException]
    /\ error = [r \in Requests |-> NoError]
    /\ forwarded = [r \in Requests |-> 0]
    /\ authCalls = 0
    /\ authOk = [r \in Requests |-> FALSE]
    /\ registeredBy = [r \in Requests |-> {}]

\* r moves on inside on_initialize / init.
Goto(r, p) ==
    /\ pc' = [pc EXCEPT ![r] = p]
    /\ loop' = Hold(r, p)
    /\ UNCHANGED <<cause, error>>

\* Exception ex, raised at a call site for the original reason why, leaves init
\* and is handled by on_initialize: the request ends in a protocol error.
Raise(r, why, ex) ==
    /\ pc' = [pc EXCEPT ![r] = "failed"]
    /\ loop' = Hold(r, "failed")
    /\ cause' = [cause EXCEPT ![r] = why]
    /\ error' = [error EXCEPT ![r] = on_initialize_except(ex)]

\* Variant: init has no ready test.
BeginWithoutReadyTest(r) ==
    /\ pc[r] = "pending"
    /\ Runs(r)
    /\ Goto(r, "load_config")
    /\ UNCHANGED <<LOW_LEVEL_TOOLS, gvm_client, gvm_ready, tools_registered, registry, tool_client,
                   forwarded, authCalls, constructed, authOk, registeredBy, callVars, toolVars, libVars>>

\* on_initialize is scheduled and enters init: `if self._gvm_ready: return`.
Begin(r) ==
    /\ pc[r] = "pending"
    /\ Runs(r)
    /\ Goto(r, IF gvm_ready THEN "call_next" ELSE "load_config")
    /\ UNCHANGED <<LOW_LEVEL_TOOLS, gvm_client, gvm_ready, tools_registered, registry, tool_client,
                   forwarded, authCalls, constructed, authOk, registeredBy, callVars, toolVars, libVars>>

\* GvmClientConfig() and the reads of its USERNAME / PASSWORD.
LoadConfig(r) ==
    /\ pc[r] = "load_config"
    /\ Runs(r)
    /\ \E password \in Passwords, read \in ReadCredentialsOutcomes :
          LET errs == GvmClientConfig(password)
          IN  IF errs # <<>>
              THEN Raise(r, ValidationError(errs), ValidationError(errs))
              ELSE IF read = "AttributeError"
              THEN Raise(r, OtherException(AttributeText), OtherException(AttributeText))
              ELSE Goto(r, "construct")
    /\ UNCHANGED <<LOW_LEVEL_TOOLS, gvm_client, gvm_ready, tools_registered, registry, tool_client,
                   forwarded, authCalls, constructed, authOk, registeredBy, callVars, toolVars, libVars>>

\* self._gvm_client = GvmClient(username=..., password=...)
Construct(r) ==
    /\ pc[r] = "construct"
    /\ Runs(r)
    /\ gvm_client' = "GvmClient"
    /\ constructed' = constructed + 1
    /\ Goto(r, "authenticate")
    /\ UNCHANGED <<LOW_LEVEL_TOOLS, gvm_ready, tools_registered, registry, tool_client,
                   forwarded, authCalls, authOk, registeredBy, callVars, toolVars, libVars>>

\* try: self._gvm_client.authenticate()  except GvmResponseError: ...
Authenticate(r) ==
    /\ pc[r] = "authenticate"
    /\ Runs(r)
    /\ authCalls' = authCalls + 1
    /\ \E out \in AuthenticateOutcomes :
          IF out.ok
          THEN /\ authOk' = [authOk EXCEPT ![r] = TRUE]
               /\ Goto(r, "register")
               /\ UNCHANGED gvm_client
          ELSE /\ gvm_client' = IF init_except_discards_client(out.ex)
                                THEN None ELSE gvm_client
               /\ Raise(r, out.ex, init_except(out.ex))
               /\ UNCHANGED authOk
    /\ UNCHANGED <<LOW_LEVEL_TOOLS, gvm_ready, tools_registered, registry, tool_client,
                   forwarded, constructed, registeredBy, callVars, toolVars, libVars>>

\* if not self._tools_registered: register_inspection_control_tools(self, client)
RegisterInspection(r) ==
    /\ pc[r] = "register"
    /\ Runs(r)
    /\ IF tools_registered
       THEN /\ Goto(r, "set_ready")
            /\ UNCHANGED <<registry, tool_client, registeredBy>>
       ELSE \E out \in RegisterOutcomes :
              IF out = "ok"
              THEN /\ registry' = Register("inspection")
                   /\ tool_client' = Bind("inspection")
                   /\ registeredBy' = [registeredBy EXCEPT ![r] = @ \cup {"inspection"}]
                   /\ Goto(r, "register_workflow")
              ELSE /\ Raise(r, OtherException(RegistrationText),
                               OtherException(RegistrationText))
                   /\ UNCHANGED <<registry, tool_client, registeredBy>>
    /\ UNCHANGED <<LOW_LEVEL_TOOLS, gvm_client, gvm_ready, tools_registered,
                   forwarded, authCalls, constructed, authOk, callVars, toolVars, libVars>>

\* register_vm_workflow_tools(self, client); self._tools_registered = True
RegisterWorkflow(r) ==
    /\ pc[r] = "register_workflow"
    /\ Runs(r)
    /\ \E out \in RegisterOutcomes :
          IF out = "ok"
          THEN /\ registry' = Register("workflow")
               /\ tool_client' = Bind("workflow")
               /\ registeredBy' = [registeredBy EXCEPT ![r] = @ \cup {"workflow"}]
               /\ tools_registered' = TRUE
               /\ Goto(r, "set_ready")
          ELSE /\ Raise(r, OtherException(RegistrationText),
                           OtherException(RegistrationText))
               /\ UNCHANGED <<registry, tool_client, registeredBy, tools_registered>>
    /\ UNCHANGED <<LOW_LEVEL_TOOLS, gvm_client, gvm_ready,
                   forwarded, authCalls, constructed, authOk, callVars, toolVars, libVars>>

\* self._gvm_ready = True; init returns.
SetReady(r) ==
    /\ pc[r] = "set_ready"
    /\ Runs(r)
    /\ gvm_ready' = TRUE
    /\ Goto(r, "call_next")
    /\ UNCHANGED <<LOW_LEVEL_TOOLS, gvm_client, tools_registered, registry, tool_client,
                   forwarded, authCalls, constructed, authOk, registeredBy, callVars, toolVars, libVars>>

\* await call_next(context): the request is forwarded and the coroutine suspends.
CallNext(r) ==
    /\ pc[r] = "call_next"
    /\ Runs(r)
    /\ forwarded' = [forwarded EXCEPT ![r] = @ + 1]
    /\ Goto(r, "awaiting")
    /\ UNCHANGED <<LOW_LEVEL_TOOLS, gvm_client, gvm_ready, tools_registered, registry, tool_client,
                   authCalls, constructed, authOk, registeredBy, callVars, toolVars, libVars>>

\* call_next returned; on_initialize returns.
Return(r) ==
    /\ pc[r] = "awaiting"
    /\ Runs(r)
    /\ Goto(r, "done")
    /\ UNCHANGED <<LOW_LEVEL_TOOLS, gvm_client, gvm_ready, tools_registered, registry, tool_client,
                   forwarded, authCalls, constructed, authOk, registeredBy, callVars, toolVars, libVars>>

-----------------------------------------------------------------------------
(* GMP client wrapper: filter strings *)

RowsWord == <<"r", "o", "w", "s">>
RowsAll == <<" ", "r", "o", "w", "s", "=", "-", "1">>     \* " rows=-1"

FilterAtoms == {RowsWord, <<"=">>, <<"\\">>, <<"s">>, <<" ">>, <<"x">>, <<"5">>}

RECURSIVE Flatten(_)
Flatten(pieces) == IF pieces = <<>> THEN <<>> ELSE Head(pieces) \o Flatten(Tail(pieces))

FilterStrings == {Flatten(a) : a \in SeqsUpTo(FilterAtoms, MaxAtoms)}

\* s has the characters of w at positions j .. j + Len(w) - 1.
At(s, j, w) == j >= 1 /\ j + Len(w) - 1 <= Len(s) /\ SubSeq(s, j, j + Len(w) - 1) = w

\* The tail `rows\\s*=` of the pattern, read as the regex engine reads it:
\* "rows", one backslash, any number of "s", then "=".
RowsTailAt(s, j) ==
    /\ At(s, j, RowsWord \o <<"\\">>)
    /\ \E e \in (j + 5)..Len(s) :
          /\ s[e] = "="
          /\ \A k \in (j + 5)..(e - 1) : s[k] = "s"

\* re.search(r"(?:^|\\s)rows\\s*=", s): the head is the start of the string or
\* a backslash followed by "s".
RowsSearch(s) ==
    \/ RowsTailAt(s, 1)
    \/ \E i \in 1..Len(s) : At(s, i, <<"\\", "s">>) /\ RowsTailAt(s, i + 2)

\* Parameter names of the GMP commands (None: the protocol object has no such method).
Methods == {"get_targets", "get_task", "no_such_method"}
Signature(method) ==
    IF method = "get_targets" THEN {"filter_string", "filter_id", "trash", "tasks"}
    ELSE IF method = "get_task" THEN {"task_id"}
    ELSE {}
\* Variant: getattr finds a command under every name.
EveryNameIsCommand(method) == TRUE

\* getattr(gmp, method_name, None) is not None.
IsCommand(method) == method \in {"get_targets", "get_task"}

_check_method_args(method, args) == \E arg \in args : arg \in Signature(method)

\* kwargs.get("filter_string") or ""
FilterOrEmpty(kwargs) ==
    IF "filter_string" \in DOMAIN kwargs /\ kwargs["filter_string"].some
    THEN kwargs["filter_string"].val
    ELSE <<>>

\* kwargs with key k set to value v.
SetKey(kwargs, k, v) ==
    [x \in DOMAIN kwargs \cup {k} |-> IF x = k THEN v ELSE kwargs[x]]

\* f"{filter_string} rows=-1".strip() if filter_string else "rows=-1"
WithRows(filter_string) ==
    IF filter_string # <<>> THEN Strip(filter_string \o RowsAll) ELSE Tail(RowsAll)

_add_rows_to_filter_string(method, kwargs) ==
    IF _check_method_args(method, {"filter_string"})
    THEN LET filter_string == FilterOrEmpty(kwargs)
         IN  IF filter_string # <<>> /\ RowsSearch(filter_string)
             THEN kwargs
             ELSE SetKey(kwargs, "filter_string", Str(WithRows(filter_string)))
    ELSE kwargs

\* Keyword arguments the wrapper operations hand to _call.
CallKwargs(method) ==
    IF method = "get_targets"
    THEN {[k \in {"trash"} |-> NoneValue]}
            \cup {[k \in {"filter_string", "trash"} |->
                      IF k = "filter_string" THEN v ELSE NoneValue] :
                  v \in {NoneValue} \cup {Str(f) : f \in FilterStrings}}
    ELSE {[k \in {"task_id"} |-> Str(<<"id-1">>)]}

-----------------------------------------------------------------------------
(* GMP client wrapper: _session and _call *)

NoKwargs == [k \in {"task_id"} |-> NoneValue]
NoCall == [method |-> "get_task", kwargs |-> NoKwargs, authenticate |-> FALSE]
NotDispatched == [sent |-> FALSE, kwargs |-> NoKwargs]

\* Exceptions of the protocol library: GvmError (and its subclasses), which
\* _call catches, logs and re-raises, and any other exception, which passes
\* through _call untouched.
GvmError(t) == [type |-> "GvmError", text |-> t, errors |-> <<>>]
CallFailures == {GvmError(<<"remote failure">>), OtherException(<<"connection lost">>)}

\* logger.debug("Calling GMP method %s with args: %s", method_name, kwargs)
debug_record(method_name, kwargs) ==
    [level |-> "DEBUG", msg |-> <<"Calling GMP method ", method_name, " with args: ">>,
     arg |-> kwargs]

\* except GvmError: logger.exception("GMP call %s failed", method_name), which
\* adds the exception to the record; no other exception is logged.
except_log(method_name, ex) ==
    IF ex.type = "GvmError"
    THEN <<[level |-> "ERROR", msg |-> <<"GMP call ", method_name, " failed">>, arg |-> ex]>>
    ELSE <<>>

\* Variant: the session is closed on the normal path only.
ClosesSessionOnReturn(raising) == ~raising

\* Leaving the `with Gmp(...) as gmp:` block disconnects, whether the block
\* returned or raised.
ClosesSession(raising) == TRUE

CallIdle ==
    /\ cpc = "idle"
    /\ call = NoCall
    /\ openSessions = 0
    /\ sessionsOpened = 0
    /\ commandsIssued = 0
    /\ dispatched = NotDispatched
    /\ callResult = "none"
    /\ raised = NoException
    /\ callLog = <<>>

\* _call(method_name, authenticate=..., **kwargs) is entered for one of methods.
Enter(methods) ==
    /\ cpc = "idle"
    /\ raised = NoException /\ callLog = <<>>
    /\ \E method \in methods, auth \in BOOLEAN :
          \E kwargs \in CallKwargs(method) :
              call' = [method |-> method, kwargs |-> kwargs, authenticate |-> auth]
    /\ cpc' = "open"
    /\ sessionsOpened' = 0
    /\ commandsIssued' = 0
    /\ dispatched' = NotDispatched
    /\ callResult' = "none"
    /\ UNCHANGED <<openSessions, raised, callLog, serverVars, toolVars, libVars>>

\* A wrapper operation calls _call.
StartCall == Enter(Methods)

\* with Gmp(connection=..., transform=...) as gmp: the connection is made, or
\* connecting raises and _call raises with no session.
OpenSession ==
    /\ cpc = "open"
    /\ \/ /\ openSessions' = openSessions + 1
          /\ sessionsOpened' = sessionsOpened + 1
          /\ cpc' = "authenticate"
          /\ UNCHANGED <<call, callResult, raised, callLog>>
       \/ \E ex \in CallFailures :
             /\ cpc' = "idle"
             /\ callResult' = "raised"
             /\ raised' = ex
             /\ callLog' = callLog \o except_log(call.method, ex)
             /\ call' = NoCall
             /\ UNCHANGED <<openSessions, sessionsOpened>>
    /\ UNCHANGED <<commandsIssued, dispatched, serverVars, toolVars, libVars>>

\* if authenticate and self._username and self._password: gmp.authenticate(...)
SessionAuthenticate ==
    /\ cpc = "authenticate"
    /\ \/ cpc' = "command" /\ UNCHANGED raised
       \/ /\ call.authenticate
          /\ \E ex \in CallFailures : cpc' = "exit_raise" /\ raised' = ex
    /\ UNCHANGED <<call, openSessions, sessionsOpened, commandsIssued, dispatched,
                   callResult, callLog, serverVars, toolVars, libVars>>

\* command = getattr(gmp, method_name, None); if command is None: raise
\* GvmError(f"Unknown GMP method: {method_name}"). Otherwise the filter string
\* is rewritten, the call is logged and the command is called once.
Command ==
    /\ cpc = "command"
    /\ IF ~IsCommand(call.method)
       THEN /\ cpc' = "exit_raise"
            /\ raised' = GvmError(<<"Unknown GMP method: ", call.method>>)
            /\ UNCHANGED <<commandsIssued, dispatched, callLog>>
       ELSE LET kwargs == _add_rows_to_filter_string(call.method, call.kwargs) IN
            /\ callLog' = Append(callLog, debug_record(call.method, kwargs))
            /\ commandsIssued' = commandsIssued + 1
            /\ dispatched' = [sent |-> TRUE, kwargs |-> kwargs]
            /\ \/ cpc' = "exit_return" /\ UNCHANGED raised
               \/ \E ex \in CallFailures : cpc' = "exit_raise" /\ raised' = ex
    /\ UNCHANGED <<call, openSessions, sessionsOpened, callResult, serverVars, toolVars, libVars>>

\* The with block is left; _call returns the result, or logs a GvmError and
\* re-raises; its arguments and locals are gone.
ExitSession ==
    /\ cpc \in {"exit_return", "exit_raise"}
    /\ callLog' = callLog \o except_log(call.method, raised)
    /\ openSessions' = IF ClosesSession(cpc = "exit_raise")
                       THEN openSessions - 1 ELSE openSessions
    /\ callResult' = IF cpc = "exit_raise" THEN "raised" ELSE "returned"
    /\ cpc' = "idle"
    /\ call' = NoCall
    /\ dispatched' = NotDispatched
    /\ UNCHANGED <<sessionsOpened, commandsIssued, raised, serverVars, toolVars, libVars>>

\* The caller has handled what _call raised and the log records are written
\* out.
CallOver ==
    /\ cpc = "idle"
    /\ raised # NoException \/ callLog # <<>>
    /\ raised' = NoException
    /\ callLog' = <<>>
    /\ UNCHANGED <<cpc, call, openSessions, sessionsOpened, commandsIssued, dispatched,
                   callResult, serverVars, toolVars, libVars>>

-----------------------------------------------------------------------------
(* Tool handlers: values *)

MaxHosts == 4
MaxReports == 2

\* Host addresses a caller may name, and their order under Python's sorted().
HostNames == {"10.0.0.1", "10.0.0.2"}
Rank(h) == IF h = "10.0.0.1" THEN 1 ELSE 2
HostLists == SeqsUpTo(HostNames, MaxHosts)

\* Ids the daemon hands out.
Ids == {"id-1", "id-2"}

\* An optional argument is used when it is neither None nor empty.
Truthy(v) == v.some /\ v.val # <<>>

OPENVAS_SCANNER_ID == "08b69003-5fc2-4037-a479-93b440211c73"
FULL_AND_FAST_SCAN_CONFIG_ID == "daba56c8-73ec-11df-a475-002264764cea"
ALL_IANA_ASSIGNED_TCP_PORT_LIST_ID == "33d0cd82-57c6-11e1-8ed1-406186ea4fc5"
DEFAULT_REPORT_FORMAT_ID == "ReportFormatType.TXT"

\* Optional string arguments of start_scan / create_target: None, "" or a value.
PortRangeArgs == {NoneValue, Str(<<>>), Str(<<"T:1-3">>)}
PortListArgs == {NoneValue, Str(<<>>), Str(<<"port-list-1">>)}
TargetNameArgs == {NoneValue, Str(<<>>), Str(<<"web">>)}

\* Insert h into the sorted sequence s, after the elements not greater than it.
Insert(h, s) ==
    LET k == Cardinality({i \in 1..Len(s) : Rank(s[i]) <= Rank(h)})
    IN  SubSeq(s, 1, k) \o <<h>> \o SubSeq(s, k + 1, Len(s))

\* sorted(hosts)
RECURSIVE sorted(_)
sorted(s) ==
    IF s = <<>> THEN <<>> ELSE Insert(s[Len(s)], sorted(SubSeq(s, 1, Len(s) - 1)))

\* sep.join(s), as the sequence of its pieces.
RECURSIVE Join(_, _)
Join(sep, s) ==
    IF Len(s) <= 1 THEN s ELSE <<Head(s), sep>> \o Join(sep, Tail(s))

\* Variant: the hosts are joined in the order given.
_default_target_name_unsorted(hosts) ==
    IF Len(hosts) = 1 THEN <<hosts[1]>>
    ELSE IF Len(hosts) <= 3 THEN Join(", ", hosts)
    ELSE <<ToString(Len(hosts)), " hosts">>

_default_target_name(hosts) ==
    IF Len(hosts) = 1 THEN <<hosts[1]>>
    ELSE IF Len(hosts) <= 3 THEN Join(", ", sorted(hosts))
    ELSE <<ToString(Len(hosts)), " hosts">>

\* target_name = target_name or _default_target_name(hosts)
TargetName(target_name, hosts) ==
    IF Truthy(target_name) THEN target_name.val ELSE _default_target_name(hosts)

\* Variant: an explicit port-list id does not clear the port-range spec.
start_scan_ports_keeping_range(port_list_id, port_ranges_list) ==
    IF ~Truthy(port_list_id) /\ ~Truthy(port_ranges_list)
    THEN [port_range |-> port_ranges_list, port_list_id |-> Str(<<ALL_IANA_ASSIGNED_TCP_PORT_LIST_ID>>)]
    ELSE [port_range |-> port_ranges_list, port_list_id |-> port_list_id]

\* start_scan: port selection before create_target.
start_scan_ports(port_list_id, port_ranges_list) ==
    IF Truthy(port_list_id)
    THEN [port_range |-> NoneValue, port_list_id |-> port_list_id]
    ELSE IF ~Truthy(port_ranges_list)
    THEN [port_range |-> port_ranges_list,
          port_list_id |-> Str(<<ALL_IANA_ASSIGNED_TCP_PORT_LIST_ID>>)]
    ELSE [port_range |-> port_ranges_list, port_list_id |-> port_list_id]

\* The primitive create_target tool: port selection (arguments it does not pass
\* take GvmClient.create_target's default, None).
create_target_ports(port_list_id, port_range_list) ==
    IF Truthy(port_list_id)
    THEN [port_range |-> NoneValue, port_list_id |-> port_list_id]
    ELSE IF Truthy(port_range_list)
    THEN [port_range |-> port_range_list, port_list_id |-> NoneValue]
    ELSE [port_range |-> NoneValue,
          port_list_id |-> Str(<<ALL_IANA_ASSIGNED_TCP_PORT_LIST_ID>>)]

\* Keyword arguments of the create_target command.
create_target_kwargs(t) ==
    LET ports == IF t.name = "start_scan"
                 THEN start_scan_ports(t.port_list_id, t.port_ranges_list)
                 ELSE create_target_ports(t.port_list_id, t.port_ranges_list)
        name  == IF t.name = "start_scan"
                 THEN TargetName(t.target_name, t.hosts)
                 ELSE t.target_name.val
    IN  [name |-> name, hosts |-> t.hosts,
         port_range |-> ports.port_range, port_list_id |-> ports.port_list_id]

\* task_name = f"Scan {target_name} - Greenbone MCP"
TaskName(target_name) == <<"Scan ">> \o target_name \o <<" - Greenbone MCP">>

\* Failures of a client-wrapper call: _call re-raises the GvmError of the
\* command; RequiredArgument is one of its subclasses.
GvmErrors == {"GvmError", "RequiredArgument"}
ExcText(ex) == IF ex = "RequiredArgument" THEN "required argument missing" ELSE "remote failure"

\* A report reference of a task (last_report / current_report): absent, or a
\* report element with its id attribute (possibly empty).
NoRef == [some |-> FALSE, id |-> ""]
Refs == {NoRef} \cup {[some |-> TRUE, id |-> i] : i \in Ids \cup {""}}

\* The text _extract_report_text finds in a report: None, empty or some text.
ReportTexts == {NoneValue, Str(<<>>), Str(<<"+ Added Issue">>)}
Reports == [id : Ids, text : ReportTexts]

\* Results of an invocation.
NoValue == [none |-> TRUE]
NoResult == [kind |-> "none", message |-> <<>>, value |-> NoValue]
ToolError(message) == [kind |-> "ToolError", message |-> message, value |-> NoValue]
IndexError == [kind |-> "IndexError", message |-> <<"list index out of range">>, value |-> NoValue]
Returned(value) == [kind |-> "returned", message |-> <<>>, value |-> value]

\* _remove_none_values on a flat dict of optional values.
_remove_none_values(d) == [k \in {x \in DOMAIN d : d[x].some} |-> d[k]]

ToolNames ==
    {"start_scan", "scan_status", "fetch_latest_report", "restart_scan", "delta_report",
     "get_target", "create_target"}

\* The first remote call of each handler.
Entry(name) ==
    CASE name = "start_scan" -> "create_target"
      [] name = "create_target" -> "create_target"
      [] name = "get_target" -> "get_target"
      [] name = "delta_report" -> "get_reports"
      [] OTHER -> "get_task"

NoTool ==
    [name |-> "none", hosts |-> <<>>, port_ranges_list |-> NoneValue,
     port_list_id |-> NoneValue, target_name |-> NoneValue, id |-> "",
     full_details |-> FALSE]

\* The invocations a caller can make.
Invocations ==
    {[name |-> "start_scan", hosts |-> h, port_ranges_list |-> pr, port_list_id |-> pl,
      target_name |-> tn, id |-> "", full_details |-> FALSE] :
        h \in HostLists, pr \in PortRangeArgs, pl \in PortListArgs, tn \in TargetNameArgs}
    \cup
    {[name |-> "create_target", hosts |-> <<"10.0.0.1">>, port_ranges_list |-> pr,
      port_list_id |-> pl, target_name |-> Str(<<"web">>), id |-> "",
      full_details |-> FALSE] : pr \in PortRangeArgs, pl \in PortListArgs}
    \cup
    {[NoTool EXCEPT !.name = n, !.id = i, !.full_details = f] :
        n \in {"scan_status", "fetch_latest_report", "restart_scan", "get_target"},
        i \in Ids, f \in {FALSE}}
    \cup
    {[NoTool EXCEPT !.name = "delta_report", !.id = i, !.full_details = f] :
        i \in Ids, f \in BOOLEAN}

NoGot == [target_name |-> <<>>, target_id |-> "", task_id |-> "", report_id |-> "",
          delta_report_id |-> ""]

-----------------------------------------------------------------------------
(* Tool handlers: steps *)

ToolIdle ==
    /\ tool = NoTool
    /\ tpc = "idle"
    /\ issued = <<>>
    /\ failedCommands = 0
    /\ got = NoGot
    /\ result = NoResult

\* The handler calls a client-wrapper method: one remote command, which returns
\* response or raises it.
Issue(cmd, kwargs, ok, response) ==
    /\ issued' = Append(issued, [cmd |-> cmd, kwargs |-> kwargs, ok |-> ok,
                                 response |-> response])
    /\ failedCommands' = failedCommands + (IF ok THEN 0 ELSE 1)

\* Variant: the handler swallows the failure and makes the same call again.
FailAndCallAgain(r) == result' = r /\ tpc' = tpc

\* The handler raises.
Fail(r) == result' = r /\ tpc' = "failed"

\* The handler returns value.
Done(value) == result' = Returned(value) /\ tpc' = "done"

\* Variant: every failure of start_scan is reported as a failed target creation.
start_scan_except_one_message(cmd, ex) ==
    ToolError(<<"Failed to create target: ", ExcText(ex)>>)

\* start_scan: `except GvmError as exc: raise ToolError(f"Failed to ...: {str(exc)}")`
\* around each of its three calls; restart_scan's start_task does the same.
start_scan_except(cmd, ex) ==
    ToolError(<<CASE cmd = "create_target" -> "Failed to create target: "
                  [] cmd = "create_task" -> "Failed to create task: "
                  [] OTHER -> "Failed to start task: ",
                ExcText(ex)>>)

\* A tool is invoked.
ToolInvoke ==
    /\ tpc = "idle"
    /\ \E t \in Invocations : tool' = t /\ tpc' = Entry(t.name)
    /\ issued' = <<>>
    /\ failedCommands' = 0
    /\ got' = NoGot
    /\ result' = NoResult
    /\ UNCHANGED <<serverVars, callVars, libVars>>

\* gvm_client.create_target(...) in start_scan and in the create_target tool.
CreateTarget ==
    /\ tpc = "create_target"
    /\ LET kwargs == create_target_kwargs(tool) IN
       \/ \E id \in Ids :
             /\ Issue("create_target", kwargs, TRUE, id)
             /\ got' = [got EXCEPT !.target_name = kwargs.name, !.target_id = id]
             /\ IF tool.name = "start_scan"
                THEN tpc' = "create_task" /\ UNCHANGED result
                ELSE Done([id |-> Str(<<id>>), name |-> Str(kwargs.name)])
       \/ \E ex \in GvmErrors :
             /\ Issue("create_target", kwargs, FALSE, ex)
             /\ UNCHANGED got
             /\ IF tool.name = "start_scan"
                THEN Fail(start_scan_except("create_target", ex))
                ELSE IF ex = "RequiredArgument"
                THEN Fail(ToolError(<<"Missing required argument: ", "name">>))
                ELSE Fail(ToolError(<<ExcText(ex)>>))
    /\ UNCHANGED <<tool, serverVars, callVars, libVars>>

\* Variant: the task is created against the default scan config's id in place
\* of the new target's id.
create_task_kwargs_wrong_target(g) ==
    [name |-> TaskName(g.target_name), config_id |-> FULL_AND_FAST_SCAN_CONFIG_ID,
     target_id |-> FULL_AND_FAST_SCAN_CONFIG_ID, scanner_id |-> OPENVAS_SCANNER_ID]

\* Keyword arguments of start_scan's create_task.
create_task_kwargs(g) ==
    [name |-> TaskName(g.target_name), config_id |-> FULL_AND_FAST_SCAN_CONFIG_ID,
     target_id |-> g.target_id, scanner_id |-> OPENVAS_SCANNER_ID]

\* gvm_client.create_task(...) in start_scan.
CreateTask ==
    /\ tpc = "create_task"
    /\ LET kwargs == create_task_kwargs(got) IN
       \/ \E id \in Ids :
             /\ Issue("create_task", kwargs, TRUE, id)
             /\ got' = [got EXCEPT !.task_id = id]
             /\ tpc' = "start_task"
             /\ UNCHANGED result
       \/ \E ex \in GvmErrors :
             /\ Issue("create_task", kwargs, FALSE, ex)
             /\ UNCHANGED got
             /\ Fail(start_scan_except("create_task", ex))
    /\ UNCHANGED <<tool, serverVars, callVars, libVars>>

\* The dictionary restart_scan returns for a task that carries neither a name
\* nor a target: _remove_none_values drops the None entries and keeps the
\* dictionaries they leave empty.
RestartResult(g, report_id) ==
    [target |-> <<>>,
     task |-> [id |-> g.task_id, scan_config_id |-> FULL_AND_FAST_SCAN_CONFIG_ID,
               scanner_id |-> OPENVAS_SCANNER_ID],
     report |-> IF report_id = None THEN <<>> ELSE [report_id |-> report_id]]

\* The dictionary start_scan returns: it is returned as built.
ScanResult(g, report_id) ==
    [target |-> [id |-> g.target_id, name |-> g.target_name],
     task |-> [id |-> g.task_id, name |-> TaskName(g.target_name),
               scan_config_id |-> FULL_AND_FAST_SCAN_CONFIG_ID,
               scanner_id |-> OPENVAS_SCANNER_ID],
     report |-> [report_id |-> report_id]]

\* gvm_client.start_task(task_id=task_id) in start_scan and restart_scan. The
\* response's report_id is None when the daemon's answer carries no report id
\* (_xsdata_class_factory fills a missing required field with None).
StartTask ==
    /\ tpc = "start_task"
    /\ LET kwargs == [task_id |-> got.task_id] IN
       \/ \E report_id \in Ids \cup {None} :
             /\ Issue("start_task", kwargs, TRUE, report_id)
             /\ got' = [got EXCEPT !.report_id = report_id]
             /\ Done(IF tool.name = "start_scan"
                     THEN ScanResult(got, report_id)
                     ELSE RestartResult(got, report_id))
       \/ \E ex \in GvmErrors :
             /\ Issue("start_task", kwargs, FALSE, ex)
             /\ UNCHANGED got
             /\ Fail(start_scan_except("start_task", ex))
    /\ UNCHANGED <<tool, serverVars, callVars, libVars>>

\* Task lists the daemon may answer get_task with.
TaskLists ==
    {<<>>} \cup {<<[id |-> tool.id, last_report |-> l, current_report |-> c]>> :
                    l \in Refs, c \in Refs}

\* Variant: the current report is preferred to the last report.
CurrentReportIdFirst(task) ==
    IF task.current_report.some THEN task.current_report.id
    ELSE IF task.last_report.some THEN task.last_report.id
    ELSE ""

\* fetch_latest_report: the id of the last report, else of the current report.
LatestReportId(task) ==
    IF task.last_report.some THEN task.last_report.id
    ELSE IF task.current_report.some THEN task.current_report.id
    ELSE ""

\* What a handler does with a failed get_task.
get_task_except(name, ex) ==
    IF ex = "RequiredArgument" /\ name # "restart_scan"
    THEN ToolError(<<"Missing required argument: ", "task_id">>)
    ELSE ToolError(<<"Failed to retrieve task: ", ExcText(ex)>>)

\* gvm_client.get_task(task_id=task_id) in scan_status, fetch_latest_report and
\* restart_scan, and what each handler does with the task list.
GetTask ==
    /\ tpc = "get_task"
    /\ LET kwargs == [task_id |-> tool.id] IN
       \/ \E tasks \in TaskLists :
             /\ Issue("get_task", kwargs, TRUE, tasks)
             /\ CASE tool.name = "scan_status" ->
                       /\ UNCHANGED got
                       /\ IF tasks = <<>>
                          THEN Fail(IndexError)
                          ELSE Done([task |-> [id |-> tasks[1].id]])
                  [] tool.name = "fetch_latest_report" ->
                       IF tasks = <<>>
                       THEN /\ Fail(ToolError(<<"No task found for task ID ", tool.id, ".">>))
                            /\ UNCHANGED got
                       ELSE IF LatestReportId(tasks[1]) = ""
                       THEN /\ Fail(ToolError(<<"No reports are available yet for task ",
                                                tool.id, ".">>))
                            /\ UNCHANGED got
                       ELSE /\ got' = [got EXCEPT !.report_id = LatestReportId(tasks[1])]
                            /\ tpc' = "get_report"
                            /\ UNCHANGED result
                  [] OTHER ->
                       IF tasks = <<>>
                       THEN /\ Fail(ToolError(<<"No tasks found for task ID ", tool.id, ".">>))
                            /\ UNCHANGED got
                       ELSE /\ got' = [got EXCEPT !.task_id = tasks[1].id]
                            /\ tpc' = "start_task"
                            /\ UNCHANGED result
       \/ \E ex \in GvmErrors :
             /\ Issue("get_task", kwargs, FALSE, ex)
             /\ UNCHANGED got
             /\ Fail(get_task_except(tool.name, ex))
    /\ UNCHANGED <<tool, serverVars, callVars, libVars>>

\* Keyword arguments of get_report, plain or delta.
get_report_kwargs(report_id, delta_report_id) ==
    [report_id |-> report_id, delta_report_id |-> delta_report_id,
     filter_string |-> "levels=chml", report_format_id |-> DEFAULT_REPORT_FORMAT_ID]

\* _build_txt_report_output, then _remove_none_values: None when the report has
\* no text.
TxtReportOutput(report) ==
    IF report.text.some
    THEN [report |-> [id |-> report.id], report_text |-> report.text.val]
    ELSE NoValue

\* gvm_client.get_report(...) in fetch_latest_report.
GetReport ==
    /\ tpc = "get_report"
    /\ LET kwargs == get_report_kwargs(got.report_id, "") IN
       \/ \E reports \in {<<>>} \cup {<<r>> : r \in Reports} :
             /\ Issue("get_report", kwargs, TRUE, reports)
             /\ IF reports = <<>>
                THEN Fail(ToolError(<<"No reports are available yet for task ", tool.id, ".">>))
                ELSE Done(TxtReportOutput(reports[1]))
       \/ \E ex \in GvmErrors :
             /\ Issue("get_report", kwargs, FALSE, ex)
             /\ Fail(ToolError(<<"Failed to retrieve report: ", ExcText(ex)>>))
    /\ UNCHANGED <<tool, got, serverVars, callVars, libVars>>

\* Variant: two newest reports with the same id pass the guards.
delta_report_guard_by_count(reports, task_id) ==
    IF reports = <<>>
    THEN ToolError(<<"No reports found for task ID ", task_id, ".">>)
    ELSE IF Len(reports) < 2
    THEN ToolError(<<"Not enough reports available for task ID ", task_id,
                     " to compute delta.">>)
    ELSE NoResult

\* delta_report: the guards on the report list (NoResult when it passes them).
delta_report_guard(reports, task_id) ==
    IF reports = <<>>
    THEN ToolError(<<"No reports found for task ID ", task_id, ".">>)
    ELSE IF Len(reports) < 2
    THEN ToolError(<<"Not enough reports available for task ID ", task_id,
                     " to compute delta.">>)
    ELSE IF reports[1] = reports[2]
    THEN ToolError(<<"Current report and last report are identical for task ID ",
                     task_id, ".">>)
    ELSE NoResult

\* gvm_client.get_reports(...) in delta_report, and the guards on the list.
GetReports ==
    /\ tpc = "get_reports"
    /\ LET kwargs == [filter_string |-> <<"~", tool.id, " sort-reverse=date">>,
                      details |-> TRUE] IN
       \/ \E reports \in SeqsUpTo(Ids, MaxReports) :
             /\ Issue("get_reports", kwargs, TRUE, reports)
             /\ IF delta_report_guard(reports, tool.id) # NoResult
                THEN /\ Fail(delta_report_guard(reports, tool.id))
                     /\ UNCHANGED got
                ELSE /\ got' = [got EXCEPT !.report_id = reports[1],
                                           !.delta_report_id = reports[2]]
                     /\ tpc' = "get_delta"
                     /\ UNCHANGED result
       \/ \E ex \in GvmErrors :
             /\ Issue("get_reports", kwargs, FALSE, ex)
             /\ UNCHANGED got
             /\ Fail(ToolError(<<"Failed to retrieve reports: ", ExcText(ex)>>))
    /\ UNCHANGED <<tool, serverVars, callVars, libVars>>

\* The report delta_report reads: the first one carrying the newest id, else
\* the first one.
PickReport(reports, last_report_id) ==
    IF \E i \in 1..Len(reports) : reports[i].id = last_report_id
    THEN reports[CHOOSE i \in 1..Len(reports) :
                    /\ reports[i].id = last_report_id
                    /\ \A j \in 1..(i - 1) : reports[j].id # last_report_id]
    ELSE reports[1]

\* The dictionary delta_report returns.
DeltaResult(task_id, g, report) ==
    [delta_report |->
        _remove_none_values([task_id |-> Str(<<task_id>>),
                             base_report_id |-> Str(<<g.report_id>>),
                             delta_report_id |-> Str(<<g.delta_report_id>>),
                             delta_report_txt |-> report.text])]

\* gvm_client.get_report(..., delta_report_id=...) in delta_report.
GetDeltaReport ==
    /\ tpc = "get_delta"
    /\ LET kwargs == get_report_kwargs(got.report_id, got.delta_report_id) IN
       \/ \E reports \in SeqsUpTo(Reports, 1) :
             /\ Issue("get_report", kwargs, TRUE, reports)
             /\ IF reports = <<>>
                THEN Fail(ToolError(<<"Delta report is empty for task ID ", tool.id, ".">>))
                ELSE Done(DeltaResult(tool.id, got, PickReport(reports, got.report_id)))
       \/ \E ex \in GvmErrors :
             /\ Issue("get_report", kwargs, FALSE, ex)
             /\ Fail(ToolError(<<"Failed to retrieve delta report: ", ExcText(ex)>>))
    /\ UNCHANGED <<tool, got, serverVars, callVars, libVars>>

\* The get_target tool: gvm_client.get_target(target_id=...), then element zero
\* of the target list.
GetTarget ==
    /\ tpc = "get_target"
    /\ LET kwargs == [target_id |-> tool.id] IN
       \/ \E targets \in SeqsUpTo({[id |-> tool.id]}, 1) :
             /\ Issue("get_target", kwargs, TRUE, targets)
             /\ IF targets = <<>>
                THEN Fail(IndexError)
                ELSE Done([target |-> targets[1]])
       \/ \E ex \in GvmErrors :
             /\ Issue("get_target", kwargs, FALSE, ex)
             /\ Fail(ToolError(<<ExcText(ex)>>))
    /\ UNCHANGED <<tool, got, serverVars, callVars, libVars>>

\* The invocation is over and its locals are gone.
ToolReturn ==
    /\ tpc \in {"done", "failed"}
    /\ tool' = NoTool
    /\ tpc' = "idle"
    /\ issued' = <<>>
    /\ failedCommands' = 0
    /\ got' = NoGot
    /\ result' = NoResult
    /\ UNCHANGED <<serverVars, callVars, libVars>>

-----------------------------------------------------------------------------
(* Specifications *)

\* The root logger of a fresh process: level WARNING, no handler.
RootIdle ==
    /\ root_logger = [level |-> 30, handlers |-> <<>>]
    /\ written = 0

\* No request is queued on the event loop.
CoIdle ==
    /\ co = <<>>
    /\ running = 0
    /\ conn = {}
    /\ wire = <<>>
    /\ ready = FALSE
    /\ hosted = {}

\* No helper function is under application.
LibIdle == fnArgs = [fn |-> "none"] /\ fnRet = <<>> /\ RootIdle /\ CoIdle

Init == ServerInit /\ CallIdle /\ ToolIdle /\ LibIdle

Next ==
    \E r \in Requests :
        \/ Begin(r)
        \/ LoadConfig(r)
        \/ Construct(r)
        \/ Authenticate(r)
        \/ RegisterInspection(r)
        \/ RegisterWorkflow(r)
        \/ SetReady(r)
        \/ CallNext(r)
        \/ Return(r)

Spec == Init /\ [][Next]_vars

InitCall == ServerInit /\ LOW_LEVEL_TOOLS = FALSE /\ CallIdle /\ ToolIdle /\ LibIdle

NextCall ==
    \/ StartCall
    \/ OpenSession
    \/ SessionAuthenticate
    \/ Command
    \/ ExitSession
    \/ CallOver

SpecCall == InitCall /\ [][NextCall]_vars

\* The state a successful first request leaves the server in.
ServerReady ==
    /\ LOW_LEVEL_TOOLS \in BOOLEAN
    /\ gvm_client = "GvmClient"
    /\ gvm_ready = TRUE
    /\ tools_registered = TRUE
    /\ registry = [t \in Tools |-> 1]
    /\ tool_client = [t \in Tools |-> 1]
    /\ constructed = 1
    /\ loop = 0
    /\ pc = [r \in Requests |-> IF r = 1 THEN "done" ELSE "pending"]
    /\ cause = [r \in Requests |-> NoException]
    /\ error = [r \in Requests |-> NoError]
    /\ forwarded = [r \in Requests |-> IF r = 1 THEN 1 ELSE 0]
    /\ authCalls = 1
    /\ authOk = [r \in Requests |-> r = 1]
    /\ registeredBy = [r \in Requests |-> IF r = 1 THEN Groups ELSE {}]

InitTool == ServerReady /\ LOW_LEVEL_TOOLS = FALSE /\ CallIdle /\ ToolIdle /\ LibIdle

NextTool ==
    \/ ToolInvoke
    \/ CreateTarget
    \/ CreateTask
    \/ StartTask
    \/ GetTask
    \/ GetReport
    \/ GetReports
    \/ GetDeltaReport
    \/ GetTarget
    \/ ToolReturn

SpecTool == InitTool /\ [][NextTool]_vars

-----------------------------------------------------------------------------
(* Claims about first-request initialization *)

GroupCount(g) == registry[CHOOSE t \in GroupTools(g) : TRUE]

\* C1: over any sequence of initialization attempts each tool group is
\* registered at most once in total, and only by an attempt whose
\* authenticate() call has succeeded.
C1_RegisteredAtMostOnce ==
    /\ \A g \in Groups : GroupCount(g) <= 1
    /\ \A r \in Requests : registeredBy[r] # {} => authOk[r]

\* C2: whenever an initialization attempt fails, the client reference is None
\* and the ready flag is false once the failure has been raised.
C2_FailureDiscardsClient ==
    [][\A r \in Requests :
          (pc[r] # "failed" /\ pc'[r] = "failed") => (gvm_client' = None /\ ~gvm_ready')]_vars

\* C3: of two racing requests at most one runs the initialization
\* sequence, so authenticate() is called at most once and no tool group is
\* registered twice.
C3_SequenceRunsOnce ==
    /\ authCalls <= 1
    /\ \A g \in Groups : GroupCount(g) <= 1

\* C4: while the ready flag is false, reading the client accessor fails with
\* RuntimeError (in every state in which other code can run).
C4_AccessorFailsUntilReady ==
    (loop = 0 /\ ~gvm_ready) => gvm = "RuntimeError"

\* C5: every failed initialization surfaces as an INTERNAL_ERROR protocol error
\* and the request is not forwarded; "Authentication failed" in the daemon's
\* text gives the wrong-credentials message, any other daemon failure a message
\* carrying its text, any other exception the generic message with its text;
\* a successful request is forwarded exactly once.
C5_FailureSurfaced ==
    \A r \in Requests :
        /\ forwarded[r] = IF pc[r] \in {"awaiting", "done"} THEN 1 ELSE 0
        /\ pc[r] # "failed" => error[r] = NoError
        /\ pc[r] = "failed" =>
              /\ error[r].code = INTERNAL_ERROR
              /\ cause[r].type \in {"ValidationError", "GvmResponseError", "Exception"}
              /\ cause[r].type = "ValidationError" => Head(error[r].message) = ConfigPrefix
              /\ cause[r].type = "GvmResponseError" =>
                    error[r].message =
                        IF \E i \in 1..(Len(cause[r].text) - 1) :
                              cause[r].text[i] = "Authentication" /\ cause[r].text[i + 1] = "failed"
                        THEN <<"Failed to authenticate with GVM:", "wrong credentials.">>
                        ELSE <<"Failed to authenticate with GVM:">> \o cause[r].text
              /\ cause[r].type = "Exception" =>
                    error[r].message =
                        <<"Failed to initialize Greenbone backend:">> \o cause[r].text

\* One request was refused for wrong credentials, another was forwarded.
C5_Witness ==
    \E r, q \in Requests :
        /\ pc[r] = "failed"
        /\ cause[r] = GvmResponseError(<<"Authentication", "failed">>)
        /\ error[r].message = <<AuthPrefix, "wrong credentials.">>
        /\ pc[q] = "done" /\ forwarded[q] = 1

NamesPasswordField(message) ==
    \E i \in 1..Len(message) : message[i] \in {"PASSWORD", "GMP_PASSWORD"}

ConfigFailure(r, kind) ==
    /\ pc[r] = "failed"
    /\ cause[r].type = "ValidationError"
    /\ cause[r].errors[1].type = kind

\* C6: a missing or blank password is reported with a message that names the
\* password field, the message for a missing password differs from the one for
\* a blank password, and a non-blank password raises no configuration error.
C6_PasswordErrorNamesField ==
    /\ \A r \in Requests :
          (pc[r] = "failed" /\ cause[r].type = "ValidationError")
              => NamesPasswordField(error[r].message)
    /\ \A r, q \in Requests :
          (ConfigFailure(r, "missing") /\ ConfigFailure(q, "value_error"))
              => error[r].message # error[q].message
    /\ \A p \in Passwords :
          (p.some /\ \E i \in 1..Len(p.val) : p.val[i] \notin Whitespace)
              => GvmClientConfig(p) = <<>>

\* C7: with LOW_LEVEL_TOOLS false no inspection/primitive tool is exposed in any
\* state; with it true both groups are exposed once initialization succeeded;
\* the workflow tools are exposed in both cases.
C7_LowLevelGate ==
    /\ ~LOW_LEVEL_TOOLS => \A t \in InspectionTools : ~Exposed(t)
    /\ (LOW_LEVEL_TOOLS /\ gvm_ready) => \A t \in Tools : Exposed(t)
    /\ gvm_ready => \A t \in WorkflowTools : Exposed(t)

-----------------------------------------------------------------------------
(* Claims about the GMP client wrapper *)

\* C8: every _call opens its own session, issues at most one remote command
\* inside it, and the session is closed when _call returns or raises; no
\* session stays open between two calls.
C8_SessionPerCall ==
    /\ openSessions = IF cpc \in {"authenticate", "command", "exit_return", "exit_raise"}
                      THEN 1 ELSE 0
    /\ sessionsOpened <= 1
    /\ commandsIssued <= sessionsOpened
    /\ dispatched.sent => (commandsIssued = 1 /\ openSessions = 1)
    /\ callResult = "returned" => (sessionsOpened = 1 /\ commandsIssued = 1)

\* A call whose command failed has raised and left no session open.
C8_Witness ==
    /\ cpc = "idle"
    /\ callResult = "raised"
    /\ commandsIssued = 1
    /\ openSessions = 0

\* The filter string the caller supplied (empty when absent or None).
Supplied ==
    IF "filter_string" \in DOMAIN call.kwargs /\ call.kwargs["filter_string"].some
    THEN call.kwargs["filter_string"].val
    ELSE <<>>

AcceptsFilter == "filter_string" \in Signature(call.method)

\* s holds a rows= clause: "rows" at the start or after whitespace, optional
\* whitespace, then "=".
HasRowsClause(s) ==
    \E j \in 1..Len(s) :
        /\ At(s, j, <<"r", "o", "w", "s">>)
        /\ j = 1 \/ s[j - 1] = " "
        /\ \E e \in (j + 4)..Len(s) :
              s[e] = "=" /\ \A k \in (j + 4)..(e - 1) : s[k] = " "

RowsMinusOne == <<"r", "o", "w", "s", "=", "-", "1">>

\* C9: for a command accepting filter_string, no filter string is
\* dispatched as exactly "rows=-1" and a filter string F without a rows= clause
\* as F, one space, "rows=-1"; other commands get their arguments unchanged.
C9_RowsAppended ==
    dispatched.sent =>
        /\ (AcceptsFilter /\ Supplied = <<>>)
              => dispatched.kwargs["filter_string"] = Str(RowsMinusOne)
        /\ (AcceptsFilter /\ Supplied # <<>> /\ ~HasRowsClause(Supplied))
              => dispatched.kwargs["filter_string"] = Str(Supplied \o <<" ">> \o RowsMinusOne)
        /\ ~AcceptsFilter => dispatched.kwargs = call.kwargs

\* s holds a rows= clause that gives a limit, such as "rows=5".
HasRowsLimit(s) ==
    \E j \in 1..Len(s) :
        /\ At(s, j, <<"r", "o", "w", "s">>)
        /\ j = 1 \/ s[j - 1] = " "
        /\ \E e \in (j + 4)..(Len(s) - 1) :
              /\ s[e] = "=" /\ s[e + 1] = "5"
              /\ \A k \in (j + 4)..(e - 1) : s[k] = " "

\* Number of places at which "rows" is directly followed by "=".
RowsClauses(s) == Cardinality({j \in 1..Len(s) : At(s, j, <<"r", "o", "w", "s", "=">>)})

\* C10: a filter string that already holds an explicit rows= clause (such as
\* "rows=5") is dispatched unchanged: no second rows= clause is appended.
C10_ExplicitRowsKept ==
    (dispatched.sent /\ AcceptsFilter /\ HasRowsLimit(Supplied))
        => /\ dispatched.kwargs["filter_string"] = Str(Supplied)
           /\ RowsClauses(dispatched.kwargs["filter_string"].val) = RowsClauses(Supplied)

-----------------------------------------------------------------------------
(* Claims about the tool handlers *)

\* The names of the commands issued so far, in order.
IssuedNames == [i \in 1..Len(issued) |-> issued[i].cmd]

\* C11: nothing is retried: within one invocation each remote command is issued
\* at most once, a failed command is the last one the invocation issues, and
\* the invocation then ends in a tool failure.
C11_NothingRetried ==
    /\ [](/\ \A i, j \in 1..Len(issued) : i # j => issued[i].cmd # issued[j].cmd
          /\ \A i \in 1..(Len(issued) - 1) : issued[i].ok
          /\ failedCommands = Cardinality({i \in 1..Len(issued) : ~issued[i].ok})
          /\ failedCommands > 0 => (tpc = "failed" /\ result.kind = "ToolError"))
    /\ [][failedCommands > 0 => issued' \in {issued, <<>>}]_vars

\* restart_scan fetched the task, then start_task failed: the invocation is over.
C11_Witness ==
    /\ tool.name = "restart_scan"
    /\ IssuedNames = <<"get_task", "start_task">>
    /\ ~issued[2].ok
    /\ tpc = "failed"

StartScanOrder == <<"create_target", "create_task", "start_task">>

\* C12: start_scan issues create_target, create_task, start_task in this order,
\* each one only after the one before it succeeded; a failed step ends the
\* invocation with a tool error whose message names that step.
C12_StartScanSteps ==
    tool.name = "start_scan" =>
        /\ Len(issued) <= 3
        /\ IssuedNames = SubSeq(StartScanOrder, 1, Len(issued))
        /\ \A i \in 1..(Len(issued) - 1) : issued[i].ok
        /\ \A i \in 1..Len(issued) :
              ~issued[i].ok =>
                  /\ tpc = "failed"
                  /\ result.kind = "ToolError"
                  /\ result.message[1] =
                        (CASE i = 1 -> "Failed to create target: "
                           [] i = 2 -> "Failed to create task: "
                           [] i = 3 -> "Failed to start task: ")

\* start_scan created the target and the task, and start_task failed.
C12_Witness ==
    /\ tool.name = "start_scan"
    /\ Len(issued) = 3
    /\ ~issued[3].ok
    /\ result.message[1] = "Failed to start task: "

\* C13: in a successful start_scan the task is created against the id
\* create_target returned with the default scan config and scanner, start_task
\* is issued for the id create_task returned, and the result carries the three
\* returned ids.
C13_StartScanIds ==
    (tool.name = "start_scan" /\ result.kind = "returned") =>
        /\ Len(issued) = 3
        /\ issued[2].kwargs.target_id = issued[1].response
        /\ issued[2].kwargs.config_id = "daba56c8-73ec-11df-a475-002264764cea"
        /\ issued[2].kwargs.scanner_id = "08b69003-5fc2-4037-a479-93b440211c73"
        /\ issued[3].kwargs.task_id = issued[2].response
        /\ result.value.target.id = issued[1].response
        /\ result.value.task.id = issued[2].response
        /\ result.value.report.report_id = issued[3].response

\* A successful start_scan in which the daemon returned different ids for the
\* target and the task.
C13_Witness ==
    /\ tool.name = "start_scan"
    /\ result.kind = "returned"
    /\ issued[1].response = "id-1"
    /\ issued[2].response = "id-2"
    /\ issued[3].response = "id-1"

\* An optional value reaches the command: it is neither None nor empty.
Sent(v) == v.some /\ v.val # <<>>

\* C14: every create_target command (from start_scan or from the create_target
\* tool) carries exactly one of port_list_id and port_range: the caller's
\* port-list id if given, otherwise the caller's range spec if given, otherwise
\* the default port-list id.
C14_PortSelection ==
    \A i \in 1..Len(issued) :
        issued[i].cmd = "create_target" =>
            LET k == issued[i].kwargs IN
            /\ Sent(k.port_list_id) # Sent(k.port_range)
            /\ Sent(tool.port_list_id)
                  => (k.port_list_id = tool.port_list_id /\ ~Sent(k.port_range))
            /\ (~Sent(tool.port_list_id) /\ Sent(tool.port_ranges_list))
                  => (k.port_range = tool.port_ranges_list /\ ~Sent(k.port_list_id))
            /\ (~Sent(tool.port_list_id) /\ ~Sent(tool.port_ranges_list))
                  => /\ k.port_list_id = Str(<<"33d0cd82-57c6-11e1-8ed1-406186ea4fc5">>)
                     /\ ~Sent(k.port_range)

\* start_scan was given both a port-list id and a range spec, and the range
\* spec was dropped.
C14_Witness ==
    /\ tool.name = "start_scan"
    /\ Sent(tool.port_list_id) /\ Sent(tool.port_ranges_list)
    /\ Len(issued) >= 1
    /\ issued[1].kwargs.port_list_id = tool.port_list_id
    /\ issued[1].kwargs.port_range = NoneValue

\* How often host h occurs in the sequence s.
Occurrences(h, s) == Cardinality({i \in 1..Len(s) : s[i] = h})

\* C15: the target name start_scan creates the target with is the caller's name
\* when one is given; otherwise the single host's address, or two or three
\* addresses in sorted order joined by ", ", or "<N> hosts" for N > 3 hosts.
C15_TargetName ==
    (tool.name = "start_scan" /\ Len(issued) >= 1) =>
        LET name == issued[1].kwargs.name
            N    == Len(tool.hosts)
        IN  IF Sent(tool.target_name)
            THEN name = tool.target_name.val
            ELSE /\ N = 1 => name = <<tool.hosts[1]>>
                 /\ N \in {2, 3} =>
                       /\ Len(name) = 2 * N - 1
                       /\ \A i \in 1..(N - 1) : name[2 * i] = ", "
                       /\ \A i \in 1..(N - 1) : Rank(name[2 * i - 1]) <= Rank(name[2 * i + 1])
                       /\ \A h \in HostNames :
                             Cardinality({i \in 1..N : name[2 * i - 1] = h})
                                 = Occurrences(h, tool.hosts)
                 /\ N > 3 => name = <<ToString(N), " hosts">>

\* Two hosts given in descending order were named in ascending order.
C15_Witness ==
    /\ tool.name = "start_scan"
    /\ ~Sent(tool.target_name)
    /\ tool.hosts = <<"10.0.0.2", "10.0.0.1">>
    /\ Len(issued) >= 1
    /\ issued[1].kwargs.name = <<"10.0.0.1", ", ", "10.0.0.2">>

\* The handler is over, whether it returned or raised.
Over == tpc \in {"done", "failed"}

\* C16: scan_status for a task id the daemon answers with an empty task list
\* fails with a ToolError and with no other kind of failure.
C16_ScanStatusNotFound ==
    (tool.name = "scan_status" /\ Over /\ issued[1].ok /\ issued[1].response = <<>>)
        => result.kind = "ToolError"

\* C17: get_target for a target id the daemon answers with an empty target list
\* fails with a ToolError; element zero of the empty list is never indexed.
C17_GetTargetNotFound ==
    (tool.name = "get_target" /\ Over /\ issued[1].ok /\ issued[1].response = <<>>)
        => result.kind = "ToolError"

NotFoundTexts == {"No task found for task ID ", "No reports are available yet for task "}

\* The task has a last-report or a current-report reference.
HasReportRef(tasks) ==
    tasks # <<>> /\ (tasks[1].last_report.some \/ tasks[1].current_report.some)

\* C18: fetch_latest_report issues get_task first and get_report only for a task
\* that has a last-report or current-report reference, with the last report's id
\* when there is one and the current report's id otherwise; with no task or no
\* reference it fails with a NotFound tool error and never issues get_report.
C18_LatestReport ==
    tool.name = "fetch_latest_report" =>
        /\ IssuedNames = SubSeq(<<"get_task", "get_report">>, 1, Len(issued))
        /\ Len(issued) = 2 =>
              LET tasks == issued[1].response IN
              /\ issued[1].ok
              /\ HasReportRef(tasks)
              /\ issued[2].kwargs.report_id =
                    (IF tasks[1].last_report.some
                     THEN tasks[1].last_report.id
                     ELSE tasks[1].current_report.id)
        /\ (Len(issued) >= 1 /\ issued[1].ok /\ ~HasReportRef(issued[1].response)) =>
              /\ Len(issued) = 1
              /\ tpc = "failed"
              /\ result.kind = "ToolError"
              /\ result.message[1] \in NotFoundTexts

\* The task had no last report and a current report, whose id went to get_report.
C18_Witness ==
    /\ tool.name = "fetch_latest_report"
    /\ Len(issued) = 2
    /\ ~issued[1].response[1].last_report.some
    /\ issued[1].response[1].current_report.some
    /\ issued[2].kwargs.report_id = issued[1].response[1].current_report.id

\* C19: delta_report fails with a tool error, without issuing the delta
\* get_report, when the report list has fewer than two entries or its two newest
\* entries share an id; a delta fetch it issues asks for the newest report with
\* the second newest as delta report, and the two ids differ.
C19_DeltaGuard ==
    tool.name = "delta_report" =>
        /\ IssuedNames = SubSeq(<<"get_reports", "get_report">>, 1, Len(issued))
        /\ (Len(issued) >= 1 /\ issued[1].ok) =>
              LET reports == issued[1].response IN
              IF Len(reports) < 2 \/ reports[1] = reports[2]
              THEN /\ Len(issued) = 1
                   /\ tpc = "failed"
                   /\ result.kind = "ToolError"
              ELSE Len(issued) = 2 =>
                      /\ issued[2].kwargs.report_id = reports[1]
                      /\ issued[2].kwargs.delta_report_id = reports[2]
                      /\ issued[2].kwargs.report_id # issued[2].kwargs.delta_report_id
        /\ Len(issued) = 2 => issued[1].ok

\* The two newest reports carried the same id and delta_report failed at once.
C19_Witness ==
    /\ tool.name = "delta_report"
    /\ Len(issued) = 1
    /\ issued[1].ok
    /\ Len(issued[1].response) = 2
    /\ issued[1].response[1] = issued[1].response[2]
    /\ tpc = "failed"

\* C20: a successful delta_report returns a summary with base_report_id (the
\* newest report's id), delta_report_id (the previous report's id) and counts;
\* the full delta text is part of the result only when full_details was asked.
C20_DeltaSummary ==
    (tool.name = "delta_report" /\ result.kind = "returned") =>
        LET summary == result.value.delta_report
            reports == issued[1].response
        IN  /\ {"base_report_id", "delta_report_id", "counts"} \subseteq DOMAIN summary
            /\ summary["base_report_id"] = Str(<<reports[1]>>)
            /\ summary["delta_report_id"] = Str(<<reports[2]>>)
            /\ "delta_report_txt" \in DOMAIN summary => tool.full_details

-----------------------------------------------------------------------------
(* Result pruning: _remove_none_values on nested structures *)

MaxItems == 2           \* entries of a mapping, elements of a list

\* Python values as tagged nodes: None, a scalar ("leaf"), a dict (x: its
\* entries in insertion order) or a list (x: its elements).
Node(t, x) == [t |-> t, x |-> x]
NoneNode == Node("none", <<>>)

\* The structures built over the values in S: dicts with distinct keys, lists.
Containers(S) ==
    LET Keys    == {"a", "b"}
        KeySeqs == {ks \in SeqsUpTo(Keys, MaxItems) :
                       \A i, j \in 1..Len(ks) : i # j => ks[i] # ks[j]}
    IN  UNION {{Node("dict", [i \in 1..Len(ks) |-> [k |-> ks[i], v |-> vs[i]]]) :
                   vs \in [1..Len(ks) -> S]} : ks \in KeySeqs}
        \cup {Node("list", items) : items \in SeqsUpTo(S, MaxItems)}

\* The objects handed to _remove_none_values: two levels of nesting over None
\* and one scalar, and the flat structures over None and two scalars.
Objects ==
    LET Scalars == {NoneNode, Node("leaf", 1)}
        Level1  == Scalars \cup Containers(Scalars)
    IN  Level1 \cup Containers(Level1) \cup Containers(Scalars \cup {Node("leaf", 2)})

RECURSIVE remove_none_values(_)

\* Variant: list elements are filtered but not walked.
remove_none_values_flat_lists(obj) ==
    IF obj.t = "dict"
    THEN LET kept == SelectSeq(obj.x, LAMBDA e : e.v # NoneNode)
         IN  Node("dict", [i \in 1..Len(kept) |->
                              [k |-> kept[i].k, v |-> remove_none_values(kept[i].v)]])
    ELSE IF obj.t = "list"
    THEN Node("list", SelectSeq(obj.x, LAMBDA e : e # NoneNode))
    ELSE obj

\* _remove_none_values: a dict keeps the entries whose value is not None, a
\* list the elements that are not None, both pruned in turn; anything else is
\* returned as it is.
remove_none_values(obj) ==
    IF obj.t = "dict"
    THEN LET kept == SelectSeq(obj.x, LAMBDA e : e.v # NoneNode)
         IN  Node("dict", [i \in 1..Len(kept) |->
                              [k |-> kept[i].k, v |-> remove_none_values(kept[i].v)]])
    ELSE IF obj.t = "list"
    THEN LET kept == SelectSeq(obj.x, LAMBDA e : e # NoneNode)
         IN  Node("list", [i \in 1..Len(kept) |-> remove_none_values(kept[i])])
    ELSE obj

\* _remove_none_values(obj)
Prune ==
    /\ fnArgs.fn = "_remove_none_values"
    /\ fnRet = <<>>
    /\ fnRet' = <<remove_none_values(fnArgs.obj)>>
    /\ UNCHANGED <<fnArgs, logVars, serverVars, callVars, toolVars, coVars>>

\* _remove_none_values applied to what it returned.
PruneAgain ==
    /\ fnArgs.fn = "_remove_none_values"
    /\ Len(fnRet) = 1
    /\ fnRet' = Append(fnRet, remove_none_values(fnRet[1]))
    /\ UNCHANGED <<fnArgs, logVars, serverVars, callVars, toolVars, coVars>>

-----------------------------------------------------------------------------
(* Report text preview: _truncate and _build_txt_report_output *)

preview_chars == 6000   \* _build_txt_report_output's default preview length
MaxOver == 3            \* report texts are up to this much shorter or longer

\* Report texts around the preview length, and two very short ones: every
\* second character is "y", the others are fill.
PreviewTexts ==
    {[i \in 1..n |-> IF i % 2 = 0 THEN "y" ELSE fill] :
        n \in {0, 1} \cup ((preview_chars - MaxOver)..(preview_chars + MaxOver)),
        fill \in {"x", "."}}

\* Variant: the ellipsis is appended to max_chars characters of the text.
_truncate_then_ellipsis(text, max_chars) ==
    IF ~text.some THEN NoneValue
    ELSE IF max_chars <= 0 \/ Len(text.val) <= max_chars THEN text
    ELSE Str(SubSeq(text.val, 1, max_chars) \o <<".", ".", ".">>)

\* _truncate: text[: max_chars - 3] + "..." when the text is longer than
\* max_chars.
_truncate(text, max_chars) ==
    IF ~text.some THEN NoneValue
    ELSE IF max_chars <= 0 \/ Len(text.val) <= max_chars THEN text
    ELSE Str(SubSeq(text.val, 1, max_chars - 3) \o <<".", ".", ".">>)

\* _build_txt_report_output with the default preview_chars: None without a
\* text, else the report's metadata with the full text or with its preview.
_build_txt_report_output(report_id, report_text, include_full_text) ==
    IF ~report_text.some THEN NoValue
    ELSE IF include_full_text
    THEN [report |-> [id |-> report_id], report_text |-> report_text.val]
    ELSE [report |-> [id |-> report_id],
          report_text_preview |-> _truncate(report_text, preview_chars).val,
          report_text_truncated |-> Len(report_text.val) > preview_chars]

\* _build_txt_report_output(report, report_text, include_full_text=...)
BuildTxtReportOutput ==
    /\ fnArgs.fn = "_build_txt_report_output"
    /\ fnRet = <<>>
    /\ fnRet' = <<_build_txt_report_output(fnArgs.report_id, fnArgs.report_text,
                                           fnArgs.include_full_text)>>
    /\ UNCHANGED <<fnArgs, logVars, serverVars, callVars, toolVars, coVars>>

-----------------------------------------------------------------------------
(* Delta counting: _extract_delta_counts *)

MaxTokens == 3          \* tokens of a delta text

\* A delta text is a sequence of tokens: a marker character, a space, a line
\* break, an issue phrase in either case, or some other text.
DeltaTokens ==
    {"+", "-", "*", "~", " ", "\n", "Added Issue", "added issue", "Removed Issue",
     "Changed Issue", "changed issue", "x"}

\* A match of (?m)^marker\s+phrase\s*$ starts at token i: i begins a line and is
\* a marker, one or more \s tokens (spaces or line breaks) follow, then the
\* phrase, then \s tokens up to a place where $ matches (the end of the text or
\* just before a line break).
MatchAt(text, i, markers, phrases) ==
    LET s == {" ", "\n"} IN
    /\ i = 1 \/ text[i - 1] = "\n"
    /\ text[i] \in markers
    /\ \E j \in (i + 2)..Len(text) :
          /\ \A k \in (i + 1)..(j - 1) : text[k] \in s
          /\ text[j] \in phrases
          /\ \E e \in j..Len(text) :
                /\ \A k \in (j + 1)..e : text[k] \in s
                /\ e = Len(text) \/ text[e + 1] = "\n"

\* _extract_delta_counts: len(findall) of the three expressions; the third is
\* compiled with the i flag. Two matches never overlap, so findall finds one
\* match for each token a match starts at.
_extract_delta_counts(report_text) ==
    LET findall(markers, phrases) ==
            Cardinality({i \in 1..Len(report_text) :
                            MatchAt(report_text, i, markers, phrases)})
    IN  [added_issues |-> findall({"+"}, {"Added Issue"}),
         removed_issues |-> findall({"-"}, {"Removed Issue"}),
         changed_issues |-> findall({"*", "~"}, {"Changed Issue", "changed issue"})]

\* _extract_delta_counts(report_text)
ExtractDeltaCounts ==
    /\ fnArgs.fn = "_extract_delta_counts"
    /\ fnRet = <<>>
    /\ fnRet' = <<_extract_delta_counts(fnArgs.report_text)>>
    /\ UNCHANGED <<fnArgs, logVars, serverVars, callVars, toolVars, coVars>>

-----------------------------------------------------------------------------
(* Credentials in the log: load_gvm_config and the wrapper's dispatch log *)

\* Variant: the password is logged as it is.
load_gvm_config_unmasked(username, password) ==
    IF GvmClientConfig(password) # <<>> THEN <<>>
    ELSE <<[level |-> "INFO",
            msg |-> <<"Gvm Client Configuration loaded: GMP_USERNAME=", username,
                      ", GMP_PASSWORD=">> \o password.val,
            arg |-> NoException]>>

\* load_gvm_config: the records it logs. GvmClientConfig() raising leaves the
\* function before anything is logged; otherwise one record with the username
\* and "*" * len(password).
load_gvm_config(username, password) ==
    IF GvmClientConfig(password) # <<>> THEN <<>>
    ELSE <<[level |-> "INFO",
            msg |-> <<"Gvm Client Configuration loaded: GMP_USERNAME=", username,
                      ", GMP_PASSWORD=">> \o [i \in 1..Len(password.val) |-> "*"],
            arg |-> NoException]>>

\* load_gvm_config() in two environments that name the same user.
LoadGvmConfig ==
    /\ fnArgs.fn = "load_gvm_config"
    /\ fnRet = <<>>
    /\ fnRet' = <<load_gvm_config(fnArgs.GMP_USERNAME, fnArgs.GMP_PASSWORD[1]),
                  load_gvm_config(fnArgs.GMP_USERNAME, fnArgs.GMP_PASSWORD[2])>>
    /\ UNCHANGED <<fnArgs, logVars, serverVars, callVars, toolVars, coVars>>

\* The wrapper built from the first environment's settings makes a call.
Dispatch ==
    /\ fnArgs.fn = "load_gvm_config"
    /\ fnRet # <<>>
    /\ fnRet[1] # <<>>
    /\ \/ Enter({"get_task", "no_such_method"})
       \/ OpenSession
       \/ SessionAuthenticate
       \/ Command
       \/ ExitSession
       \/ CallOver

-----------------------------------------------------------------------------
(* Logging setup: setup_logging *)

MaxSetupCalls == 2      \* calls of setup_logging in one process

\* The level argument of setup_logging: None, or a level name in any case.
LevelArgs == {"None", "debug", "WARNING", "nonsense"}

\* level or LOG_LEVEL (left at its default, "INFO"), then
\* logging._nameToLevel.get(resolved_level.upper(), logging.INFO).
resolved_level(level) ==
    CASE level = "debug" -> 10
      [] level = "WARNING" -> 30
      [] OTHER -> 20

\* setup_logging(level): a new StreamHandler on sys.stderr is built, the root
\* logger's level is set and the handler is added to the root logger.
SetupLogging ==
    /\ fnArgs.fn = "setup_logging"
    /\ Len(fnRet) < MaxSetupCalls
    /\ \E level \in LevelArgs :
          root_logger' =
              [level |-> resolved_level(level),
               handlers |-> Append(root_logger.handlers,
                                   [stream |-> "stderr", call |-> Len(fnRet) + 1])]
    /\ fnRet' = Append(fnRet, "None")
    /\ written' = 0
    /\ UNCHANGED <<fnArgs, serverVars, callVars, toolVars, coVars>>

\* Some module logs a record at INFO: if the root logger's level lets it
\* through, every handler of the root logger writes it to its stream.
LogRecord ==
    /\ fnArgs.fn = "setup_logging"
    /\ written' = IF 20 >= root_logger.level THEN Len(root_logger.handlers) ELSE 0
    /\ UNCHANGED <<fnArgs, fnRet, root_logger, serverVars, callVars, toolVars, coVars>>

-----------------------------------------------------------------------------
(* Helper functions applied on their own *)

\* The applications checked: a function of the helpers and its arguments.
Calls ==
    {[fn |-> "_remove_none_values", obj |-> o] : o \in Objects}
    \cup {[fn |-> "_build_txt_report_output", report_id |-> "id-1", report_text |-> t,
           include_full_text |-> f] :
              t \in {NoneValue} \cup {Str(x) : x \in PreviewTexts}, f \in BOOLEAN}
    \cup {[fn |-> "_extract_delta_counts", report_text |-> t] :
              t \in SeqsUpTo(DeltaTokens, MaxTokens)}
    \cup {[fn |-> "load_gvm_config", GMP_USERNAME |-> u, GMP_PASSWORD |-> <<p, q>>] :
              u \in {"admin", "gmp"}, p \in Passwords, q \in Passwords}
    \cup {[fn |-> "setup_logging"]}

InitLib ==
    /\ ServerInit /\ LOW_LEVEL_TOOLS = FALSE /\ CallIdle /\ ToolIdle
    /\ fnArgs \in Calls
    /\ fnRet = <<>>
    /\ RootIdle
    /\ CoIdle

NextLib ==
    \/ Prune
    \/ PruneAgain
    \/ BuildTxtReportOutput
    \/ ExtractDeltaCounts
    \/ LoadGvmConfig
    \/ Dispatch
    \/ SetupLogging
    \/ LogRecord

SpecLib == InitLib /\ [][NextLib]_vars

-----------------------------------------------------------------------------
(* Coroutines on the event loop: on_initialize and the tool handlers *)

NumCoroutines == 3      \* requests handled by the server process

Coroutines == 1..NumCoroutines

\* What a request runs: the initialization middleware or a tool handler.
CoKinds == {"on_initialize", "get_targets", "start_scan"}

\* The client calls a coroutine makes, in order; each call opens a session of
\* its own on self._connection.
Script(kind) ==
    CASE kind = "on_initialize" -> <<"authenticate">>
      [] kind = "get_targets" -> <<"get_targets">>
      [] kind = "start_scan" -> <<"create_target", "create_task", "start_task">>

\* authenticate() opens an authenticated session and issues no command in it.
Commands(method) == IF method = "authenticate" THEN 0 ELSE 1

Event(c, e) == [by |-> c, ev |-> e]

\* Coroutine c may take its next step.
Turn(c) == IF running = 0 THEN Parked(co[c].pc) ELSE running = c

\* c moves to position p; it gives up the event loop where p is a suspension.
Move(c, p) ==
    /\ co' = [co EXCEPT ![c].pc = p]
    /\ running' = Hold(c, p)

\* c ends with an exception: the framework turns it into a protocol error.
Abort(c) ==
    /\ co' = [co EXCEPT ![c].pc = "failed", ![c].failing = FALSE]
    /\ running' = 0

\* A new server process with its requests still to be handled.
CoInit ==
    /\ co \in [Coroutines ->
                 {[kind |-> k, pc |-> "pending", script |-> <<>>, failing |-> FALSE] :
                      k \in CoKinds}]
    /\ running = 0
    /\ conn = {}
    /\ wire = <<>>
    /\ ready = FALSE
    /\ hosted = {}

\* The event loop starts the coroutine of a request. A tool call is dispatched
\* to the handler registered under its name; on_initialize calls init(), which
\* returns at once when the server is ready and loads the configuration and
\* constructs the client otherwise.
CoStart(c) ==
    /\ co[c].pc = "pending"
    /\ Turn(c)
    /\ co[c].kind # "on_initialize" => co[c].kind \in hosted
    /\ IF co[c].kind = "on_initialize" /\ ready
       THEN Move(c, "call_next")
       ELSE \/ /\ co' = [co EXCEPT ![c].pc = "open", ![c].script = Script(co[c].kind)]
               /\ running' = c
            \/ /\ co[c].kind = "on_initialize"
               /\ Abort(c)
    /\ UNCHANGED <<conn, wire, ready, hosted>>

\* with Gmp(connection=self._connection, ...) as gmp: the session is opened.
CoOpen(c) ==
    /\ co[c].pc = "open"
    /\ Turn(c)
    /\ \/ /\ conn' = conn \cup {c}
          /\ wire' = Append(wire, Event(c, "connect"))
          /\ Move(c, "authenticate")
       \/ /\ Abort(c)
          /\ UNCHANGED <<conn, wire>>
    /\ UNCHANGED <<ready, hosted>>

\* gmp.authenticate(self._username, self._password)
CoAuthenticate(c) ==
    /\ co[c].pc = "authenticate"
    /\ Turn(c)
    /\ wire' = Append(wire, Event(c, "authenticate"))
    /\ \/ Move(c, IF Commands(Head(co[c].script)) = 0 THEN "close" ELSE "command")
       \/ /\ co' = [co EXCEPT ![c].pc = "close", ![c].failing = TRUE]
          /\ running' = Hold(c, "close")
    /\ UNCHANGED <<conn, ready, hosted>>

\* command(**kwargs): the remote command of the call is issued in the session.
CoCommand(c) ==
    /\ co[c].pc = "command"
    /\ Turn(c)
    /\ wire' = Append(wire, Event(c, Head(co[c].script)))
    /\ \/ Move(c, "close")
       \/ /\ co' = [co EXCEPT ![c].pc = "close", ![c].failing = TRUE]
          /\ running' = Hold(c, "close")
    /\ UNCHANGED <<conn, ready, hosted>>

\* The with block is left: the session is closed. A failure of the call ends
\* the coroutine; otherwise the handler goes on to its next call, init goes on
\* to the registration, and a handler without further calls returns.
CoClose(c) ==
    /\ co[c].pc = "close"
    /\ Turn(c)
    /\ conn' = conn \ {c}
    /\ wire' = Append(wire, Event(c, "disconnect"))
    /\ IF co[c].failing
       THEN Abort(c)
       ELSE LET rest == Tail(co[c].script)
                p == IF rest # <<>> THEN "open"
                     ELSE IF co[c].kind = "on_initialize" THEN "register" ELSE "done"
            IN  /\ co' = [co EXCEPT ![c].pc = p, ![c].script = rest]
                /\ running' = Hold(c, p)
    /\ UNCHANGED <<ready, hosted>>

\* init registers the two tool groups and sets the ready flag; a register call
\* that raises leaves the tools registered before it on the server.
CoRegister(c) ==
    /\ co[c].pc = "register"
    /\ Turn(c)
    /\ \/ /\ hosted' = Tools
          /\ ready' = TRUE
          /\ Move(c, "call_next")
       \/ /\ hosted' \in {hosted, hosted \cup InspectionTools}
          /\ Abort(c)
          /\ UNCHANGED ready
    /\ UNCHANGED <<conn, wire>>

\* await call_next(context): on_initialize suspends.
CoCallNext(c) ==
    /\ co[c].pc = "call_next"
    /\ Turn(c)
    /\ Move(c, "awaiting")
    /\ UNCHANGED <<conn, wire, ready, hosted>>

\* call_next returned: on_initialize is resumed and returns.
CoReturn(c) ==
    /\ co[c].pc = "awaiting"
    /\ Turn(c)
    /\ Move(c, "done")
    /\ UNCHANGED <<conn, wire, ready, hosted>>

InitLoop ==
    /\ ServerInit /\ LOW_LEVEL_TOOLS = FALSE /\ CallIdle /\ ToolIdle
    /\ fnArgs = [fn |-> "none"] /\ fnRet = <<>> /\ RootIdle
    /\ CoInit

NextLoop ==
    \E c \in Coroutines :
        /\ \/ CoStart(c)
           \/ CoOpen(c)
           \/ CoAuthenticate(c)
           \/ CoCommand(c)
           \/ CoClose(c)
           \/ CoRegister(c)
           \/ CoCallNext(c)
           \/ CoReturn(c)
        /\ UNCHANGED <<serverVars, callVars, toolVars, fnArgs, fnRet, logVars>>

SpecLoop == InitLoop /\ [][NextLoop]_vars

-----------------------------------------------------------------------------
(* Claims C21..C30 *)

\* C21: a successful result of a workflow tool carries no None-valued entry,
\* whatever the daemon answered: the report id of start_scan and restart_scan
\* is a real id when present, and every entry of delta_report's dictionary has
\* a value.
C21_NoNoneInResults ==
    result.kind = "returned" =>
        /\ tool.name = "start_scan" => result.value.report.report_id # None
        /\ tool.name = "restart_scan" =>
              \A k \in DOMAIN result.value.report : result.value.report[k] # None
        /\ tool.name = "delta_report" =>
              \A k \in DOMAIN result.value.delta_report :
                  result.value.delta_report[k].some

\* A None-valued dict entry or a None list element somewhere in obj.
RECURSIVE HasNone(_)
HasNone(obj) ==
    /\ obj.t \in {"dict", "list"}
    /\ \E i \in 1..Len(obj.x) :
          LET v == IF obj.t = "dict" THEN obj.x[i].v ELSE obj.x[i]
          IN  v = NoneNode \/ HasNone(v)

\* The scalars of obj in walking order, each with the keys that lead to it
\* ("[]" stands for a step into a list).
RECURSIVE LeavesOf(_, _)
LeavesOf(obj, path) ==
    LET RECURSIVE Walk(_)
        Walk(i) ==
            IF i > Len(obj.x) THEN <<>>
            ELSE (IF obj.t = "dict"
                  THEN LeavesOf(obj.x[i].v, Append(path, obj.x[i].k))
                  ELSE LeavesOf(obj.x[i], Append(path, "[]")))
                 \o Walk(i + 1)
    IN  CASE obj.t = "leaf" -> <<[path |-> path, v |-> obj.x]>>
          [] obj.t = "none" -> <<>>
          [] OTHER -> Walk(1)

\* C22: what _remove_none_values returns holds no None dict entry and no None
\* list element at any depth, holds the scalars of its argument under the same
\* keys and in the same order, and is returned unchanged by a second pruning.
C22_PruneRemovesNone ==
    fnArgs.fn = "_remove_none_values" =>
        /\ Len(fnRet) >= 1 =>
              /\ ~HasNone(fnRet[1])
              /\ LeavesOf(fnRet[1], <<>>) = LeavesOf(fnArgs.obj, <<>>)
        /\ Len(fnRet) = 2 => fnRet[2] = fnRet[1]

\* {"a": {"a": None, "b": 1}, "b": [None, 1]} was pruned twice, to
\* {"a": {"b": 1}, "b": [1]}.
C22_Witness ==
    /\ fnArgs.fn = "_remove_none_values"
    /\ fnArgs.obj =
          Node("dict", <<[k |-> "a", v |-> Node("dict", <<[k |-> "a", v |-> NoneNode],
                                                          [k |-> "b", v |-> Node("leaf", 1)]>>)],
                         [k |-> "b", v |-> Node("list", <<NoneNode, Node("leaf", 1)>>)]>>)
    /\ Len(fnRet) = 2
    /\ fnRet[1] =
          Node("dict", <<[k |-> "a", v |-> Node("dict", <<[k |-> "b", v |-> Node("leaf", 1)]>>)],
                         [k |-> "b", v |-> Node("list", <<Node("leaf", 1)>>)]>>)

\* C23: the preview of a text of at most 6000 characters is the text, with
\* report_text_truncated false; the preview of a longer text is its first 5997
\* characters followed by "...", 6000 characters in all, with
\* report_text_truncated true.
C23_PreviewTruncation ==
    (/\ fnArgs.fn = "_build_txt_report_output"
     /\ fnArgs.report_text.some
     /\ ~fnArgs.include_full_text
     /\ fnRet # <<>>) =>
        LET text    == fnArgs.report_text.val
            preview == fnRet[1].report_text_preview
        IN  /\ Len(preview) <= 6000
            /\ Len(text) <= 6000 =>
                  preview = text /\ ~fnRet[1].report_text_truncated
            /\ Len(text) > 6000 =>
                  /\ Len(preview) = 6000
                  /\ SubSeq(preview, 1, 5997) = SubSeq(text, 1, 5997)
                  /\ SubSeq(preview, 5998, 6000) = <<".", ".", ".">>
                  /\ fnRet[1].report_text_truncated

\* The preview of a text of 6001 characters was built.
C23_Witness ==
    /\ fnArgs.fn = "_build_txt_report_output"
    /\ fnArgs.report_text.some
    /\ Len(fnArgs.report_text.val) = 6001
    /\ ~fnArgs.include_full_text
    /\ fnRet # <<>>
    /\ fnRet[1].report_text_truncated

\* The lines of a text: line n runs from after the (n-1)th line break to before
\* the nth.
Breaks(text) == {i \in 1..Len(text) : text[i] = "\n"}
LineStarts(text) == {1} \cup {i + 1 : i \in Breaks(text)}
LineFrom(text, a) ==
    LET b == IF \E i \in Breaks(text) : i >= a
             THEN CHOOSE i \in Breaks(text) : i >= a /\ \A k \in Breaks(text) : k >= a => i <= k
             ELSE Len(text) + 1
    IN  SubSeq(text, a, b - 1)

\* A line of the form marker, whitespace, phrase (blanks may follow).
IssueLine(line, markers, phrases) ==
    /\ Len(line) >= 3
    /\ line[1] \in markers
    /\ \E j \in 3..Len(line) :
          /\ \A k \in 2..(j - 1) : line[k] = " "
          /\ line[j] \in phrases
          /\ \A k \in (j + 1)..Len(line) : line[k] = " "

IssueLines(text, markers, phrases) ==
    Cardinality({a \in LineStarts(text) : IssueLine(LineFrom(text, a), markers, phrases)})

\* C24: each count of _extract_delta_counts is the number of lines of the text
\* that have the form of its kind: "+", whitespace, "Added Issue"; "-",
\* whitespace, "Removed Issue"; "*" or "~", whitespace, "Changed Issue" in any
\* case. Other lines count for nothing and no line counts twice.
C24_DeltaCounts ==
    (fnArgs.fn = "_extract_delta_counts" /\ fnRet # <<>>) =>
        /\ fnRet[1].added_issues = IssueLines(fnArgs.report_text, {"+"}, {"Added Issue"})
        /\ fnRet[1].removed_issues = IssueLines(fnArgs.report_text, {"-"}, {"Removed Issue"})
        /\ fnRet[1].changed_issues =
              IssueLines(fnArgs.report_text, {"*", "~"}, {"Changed Issue", "changed issue"})

\* C28: a call of a name the protocol object does not have ends with a
\* GvmError "Unknown GMP method: <name>" raised to the caller; the call issued
\* no command, it closed the session it opened, and it logged the failure
\* once, as an error record carrying that exception.
C28_UnknownCommand ==
    /\ (call.method = "no_such_method" /\ cpc # "idle") =>
          /\ commandsIssued = 0
          /\ ~dispatched.sent
          /\ raised.type = "GvmError" =>
                (cpc = "exit_raise" /\ openSessions = 1 /\ callLog = <<>>)
    /\ (cpc = "idle" /\ raised = GvmError(<<"Unknown GMP method: ", "no_such_method">>)) =>
          /\ callResult = "raised"
          /\ commandsIssued = 0
          /\ sessionsOpened = 1
          /\ openSessions = 0
          /\ callLog = <<[level |-> "ERROR",
                          msg |-> <<"GMP call ", "no_such_method", " failed">>,
                          arg |-> raised]>>

\* The call of the unknown name is over.
C28_Witness ==
    /\ cpc = "idle"
    /\ callResult = "raised"
    /\ raised = GvmError(<<"Unknown GMP method: ", "no_such_method">>)
    /\ Len(callLog) = 1

\* The texts of a log record: its message and what its argument holds.
RecordTexts(rec) ==
    {rec.msg} \cup
    (IF rec.level = "DEBUG"
     THEN {rec.arg[k].val : k \in DOMAIN rec.arg}
     ELSE {rec.arg.text})

\* C25: when two environments with the same username and passwords of equal
\* length are loaded, load_gvm_config logs the same records for both; the
\* record of a load shows the password as Len(password) asterisks; and no
\* record of the loader or of the wrapper's dispatch log holds the password.
C25_PasswordMasked ==
    (fnArgs.fn = "load_gvm_config" /\ fnRet # <<>>) =>
        LET pw == fnArgs.GMP_PASSWORD IN
        /\ (fnRet[1] # <<>> /\ fnRet[2] # <<>> /\ Len(pw[1].val) = Len(pw[2].val)) =>
              fnRet[1] = fnRet[2]
        /\ \A e \in {1, 2} :
              fnRet[e] # <<>> =>
                  /\ Len(fnRet[e]) = 1
                  /\ fnRet[e][1].msg =
                        <<"Gvm Client Configuration loaded: GMP_USERNAME=",
                          fnArgs.GMP_USERNAME, ", GMP_PASSWORD=">>
                        \o [i \in 1..Len(pw[e].val) |-> "*"]
                  /\ \A i \in 1..Len(fnRet[e]) :
                        \A t \in RecordTexts(fnRet[e][i]) : ~Contains(t, pw[e].val)
        /\ fnRet[1] # <<>> =>
              \A i \in 1..Len(callLog) :
                  \A t \in RecordTexts(callLog[i]) : ~Contains(t, pw[1].val)

\* Two different passwords of two characters were loaded and the wrapper
\* logged a call.
C25_Witness ==
    /\ fnArgs.fn = "load_gvm_config"
    /\ fnRet # <<>>
    /\ fnArgs.GMP_PASSWORD = <<Str(<<"x", " ">>), Str(<<"x", "x">>)>>
    /\ fnRet[1] # <<>>
    /\ fnRet[2] # <<>>
    /\ callLog # <<>>

\* C26: after any number of setup_logging calls the root logger carries one
\* handler installed by setup_logging, and a record it lets through is written
\* to standard error once.
C26_SetupLoggingIdempotent ==
    (fnArgs.fn = "setup_logging" /\ Len(fnRet) >= 1) =>
        /\ Len(root_logger.handlers) = 1
        /\ written <= 1

\* C27: once the ready flag is set it stays set; from then on the client
\* reference, the tools-registered flag, the registered tools and the number
\* of authenticate() calls never change, and no request is at a step of init
\* past the ready test: a request that enters init goes straight on to
\* call_next.
C27_ReadyAbsorbing ==
    /\ [](gvm_ready =>
            \A r \in Requests : pc[r] \in {"pending", "call_next", "awaiting", "done", "failed"})
    /\ [][gvm_ready =>
            /\ gvm_ready'
            /\ UNCHANGED <<gvm_client, tools_registered, registry, tool_client, authCalls, constructed, registeredBy>>]_vars

\* A request entered init after another one had made the server ready, and was
\* forwarded without having authenticated or registered anything.
C27_Witness ==
    /\ gvm_ready
    /\ \E r \in Requests :
          /\ forwarded[r] = 1
          /\ ~authOk[r]
          /\ registeredBy[r] = {}

\* C29: in every state reached by any sequence of successful and failed init
\* attempts, a true ready flag comes with a client reference that is not None
\* and a true tools-registered flag, and a true tools-registered flag comes
\* with every registered tool handler calling the client the server holds.
C29_InitStateInvariant ==
    /\ gvm_ready => (gvm_client # None /\ tools_registered)
    /\ tools_registered =>
          \A t \in Tools : registry[t] > 0 /\ held # 0 /\ tool_client[t] = held

\* Both groups are registered and the server is ready after an earlier attempt
\* had registered the inspection group for a client constructed before.
C29_Witness ==
    /\ gvm_ready
    /\ tools_registered
    /\ held = 2
    /\ \E t \in InspectionTools : registry[t] = 2

\* C30: a coroutine that has a session open holds the event loop until the
\* session is closed, so no two coroutines (two tool invocations, or an
\* initialization and a tool invocation) have sessions open on the client's
\* connection at the same time, and on the connection the sender changes only
\* from the close of one session to the opening of the next.
C30_SessionsNeverOverlap ==
    /\ \A c \in conn : running = c
    /\ Cardinality(conn) <= 1
    /\ \A i \in 1..(Len(wire) - 1) :
          wire[i].by # wire[i + 1].by =>
              (wire[i].ev = "disconnect" /\ wire[i + 1].ev = "connect")

\* The session of a tool invocation is open while an on_initialize coroutine
\* is suspended at call_next and another tool invocation has had its sessions.
C30_Witness ==
    \E c, d, e \in DOMAIN co :
        /\ co[c].kind = "on_initialize" /\ co[c].pc = "awaiting"
        /\ co[d].kind = "start_scan" /\ d \in conn /\ Len(co[d].script) = 1
        /\ co[e].kind = "get_targets" /\ co[e].pc = "done"

=============================================================================
